---------------------------- MODULE Spec2Model ----------------------------
(***************************************************************************)
(* Bounded execution of a remote browsing task (checkoutAgent.js,          *)
(* paymentAgent*.js and their variants): one call creates a session,       *)
(* races the task against a deadline timer, looks up the live URL, stops   *)
(* the session and returns a record or throws.                             *)
(*                                                                         *)
(* JavaScript runs one macrotask at a time: each action below is one       *)
(* event-loop turn (a provider response or the timer firing) together with *)
(* every microtask continuation it triggers, up to the next await on a     *)
(* provider request.                                                       *)
(*                                                                         *)
(* The same call is executed twice against one provider behaviour: run     *)
(* "call" with the progress sink chosen in Init and run "ref" without a    *)
(* sink. A provider event is delivered to every run that waits for it.     *)
(*                                                                         *)
(* Two further parts use the same handlers: the response parsers           *)
(* (_parseAgentResponse) applied to bounded texts, and the server of       *)
(* app.js with two requests in flight, each with its own call and its own  *)
(* record in activeSessions.  The locale profile resolver                  *)
(* (_inferCountryProfile) is applied to bounded URLs, and the server with  *)
(* or without its watchdog (scheduleSessionTimeout) handles one request.   *)
(***************************************************************************)
EXTENDS Naturals, Sequences, FiniteSets

VARIABLES
    variant,   \* which class runs: its timer callback stops the session or only rejects
    run,       \* run[r]: the state of one execution of extractCheckoutURLWithStreaming
    parse,     \* one application of _parseAgentResponse: its arguments and its result
    app,       \* the server: its requests in flight, activeSessions and the provider
    locale     \* the profiles _inferCountryProfile returned and the objects holding them

vars == <<variant, run, parse, app, locale>>

Runs == {"call", "ref"}

\* the timer callback awaits sessions.stop before reject (checkoutAgent.js:242-256)
\* or rejects at once (unnamed/part_003:199-201)
Variants == {"stopThenReject", "rejectOnly"}

-----------------------------------------------------------------------------
(* Values *)

\* how many of the sink's messages may be throwing ones
MaxThrowing == 1

NullId == "null"
SessionIdOfProvider == "s1"

Err(m) == [name |-> "Error", message |-> m]
NoError == [name |-> "none", message |-> ""]

\* new Error(`Task timed out after ${this.timeoutMinutes} minutes`)
TimeoutMessage == "Task timed out after N minutes"
TimeoutError == Err(TimeoutMessage)
CreateError == Err("session creation failed")
StopError == Err("stop failed")
GetError == Err("get failed")
SinkError == Err("sink failed")

\* what startAndWait may reject with: the provider's error is arbitrary
TaskErrors == {Err("agent failed"), Err(TimeoutMessage)}

\* what startAndWait may resolve with: result.data.finalResult, result.finalResult, neither
TaskResults ==
    { [shape |-> "data", text |-> "CHECKOUT_URL: u"],
      [shape |-> "flat", text |-> "CHECKOUT_URL: u"],
      [shape |-> "none", text |-> ""] }
NoResult == [shape |-> "unset", text |-> ""]

\* what sessions.get may answer
GetAnswers == {"liveUrl", "noLiveUrl", "null", "fail"}
StopAnswers == {"ok", "fail"}
CreateAnswers == {"ok", "fail"}

NoRecord == [source |-> "unset", raw_response |-> "", screenshot |-> "unset"]

\* _parseAgentResponse on a non-empty finalResult keeps the text as raw_response;
\* without finalResult the record is the fixed fallback with the JSON of the result
ParseResult(result) ==
    IF result.shape \in {"data", "flat"}
    THEN [source |-> "agent", raw_response |-> result.text, screenshot |-> "absent"]
    ELSE [source |-> "fallback", raw_response |-> "JSON.stringify(result)", screenshot |-> "absent"]

\* if (screenshotData) parsedResult.screenshot = screenshotData
AttachScreenshot(rec, shot) ==
    IF shot = "null" THEN rec ELSE [rec EXCEPT !.screenshot = shot]

NoOutcome == [kind |-> "none", record |-> NoRecord, error |-> NoError]
Returned(rec) == [kind |-> "return", record |-> rec, error |-> NoError]
Thrown(e) == [kind |-> "throw", record |-> NoRecord, error |-> e]

Msg(tag, arg) == [tag |-> tag, arg |-> arg]

\* the messages of the code, by tag
Tags ==
    { "starting", "creating", "created", "taskStarting", "optimized", "timeoutProtection",
      "taskCompleted", "capturing", "noDetails", "noLiveUrl", "liveUrl", "screenshotDone",
      "screenshotError", "stoppedOk", "stopWarnClean", "stoppedTimeout", "stopWarnTimeout",
      "stoppedError", "stopWarnError", "extractionCompleted", "extractionError" }

-----------------------------------------------------------------------------
(* The progress sink *)

RECURSIVE Emit(_, _)
\* if (progressCallback) progressCallback(m), for each m of ms in turn, until an
\* invocation throws: the state after, and whether one threw
Emit(c, ms) ==
    IF c.sink = "absent" \/ ms = <<>>
    THEN [c |-> c, thrown |-> FALSE]
    ELSE LET d == [c EXCEPT !.msgs = Append(@, Head(ms))]
         IN  IF Head(ms).tag \in c.throwsOn
             THEN [c |-> d, thrown |-> TRUE]
             ELSE Emit(d, Tail(ms))

-----------------------------------------------------------------------------
(* extractCheckoutURLWithStreaming: the code after _runBrowserUseTask settles *)

\* catch (error) { progressCallback(`Error during extraction: ...`); throw error }
WrapperCatch(c, error) ==
    LET e == Emit(c, <<Msg("extractionError", error.message)>>)
    IN  [e.c EXCEPT !.wOutcome = IF e.thrown THEN Thrown(SinkError) ELSE Thrown(error)]

\* progressCallback("extraction completed!"); return result
WrapperReturn(c, rec) ==
    LET e == Emit(c, <<Msg("extractionCompleted", "")>>)
    IN  IF e.thrown THEN WrapperCatch(e.c, SinkError)
        ELSE [e.c EXCEPT !.wOutcome = Returned(rec)]

\* _runBrowserUseTask rejects with error
Throw(c, error) ==
    WrapperCatch([c EXCEPT !.pc = "done", !.outcome = Thrown(error)], error)

\* _runBrowserUseTask resolves with rec
Return(c, rec) ==
    WrapperReturn([c EXCEPT !.pc = "done", !.outcome = Returned(rec)], rec)

-----------------------------------------------------------------------------
(* _runBrowserUseTask *)

\* clearTimeout(timeoutId) left out
ClearTimeoutSkipped(t) == t

\* if (timeoutId) clearTimeout(timeoutId): a timer that has fired stays fired
ClearTimeout(t) == IF t = "armed" THEN "cleared" ELSE t

\* IssueStop with the session id read from one place shared by the calls, which
\* holds the id of the session created last
IssueStopLatest(c, by) ==
    [c EXCEPT !.reqs = Append(@, [op |-> "stop", sessionId |-> app.provider.latest]),
              !.stops = Append(@, [by |-> by, status |-> "pending"])]

\* this.hb.sessions.stop(sessionId) is called and awaited by `by`
IssueStop(c, by) ==
    [c EXCEPT !.reqs = Append(@, [op |-> "stop", sessionId |-> c.sessionId]),
              !.stops = Append(@, [by |-> by, status |-> "pending"])]

\* the answer to the pending stop request of `by`
SettleStop(c, by, ans) ==
    [c EXCEPT !.stops = [i \in DOMAIN @ |->
                            IF @[i].by = by /\ @[i].status = "pending"
                            THEN [@[i] EXCEPT !.status = ans] ELSE @[i]]]

\* MainCatch with the session left running: the catch block rethrows at once
MainCatchNoStop(c, error) ==
    Throw([c EXCEPT !.timer = ClearTimeout(@), !.error = error], error)

\* MainCatch without the `if (sessionId)` guard: it stops whatever sessionId holds
MainCatchAlwaysStops(c, error) ==
    [IssueStop([c EXCEPT !.timer = ClearTimeout(@), !.error = error], "catch")
        EXCEPT !.pc = "awaitStopErr"]

\* the outer catch block: clear the timer, stop the session if one was created,
\* rethrow
MainCatch(c, error) ==
    LET d == [c EXCEPT !.timer = ClearTimeout(@), !.error = error]
    IN  IF d.sessionId # NullId
        THEN [IssueStop(d, "catch") EXCEPT !.pc = "awaitStopErr"]
        ELSE Throw(d, error)

\* try { await stop; progressCallback(okTag) } catch (stopError) { progressCallback(warnTag) }
\* once the stop request has answered ans
StopReport(c, ans, okTag, warnTag) ==
    IF ans = "ok"
    THEN LET e == Emit(c, <<Msg(okTag, "")>>)
         IN  IF e.thrown THEN Emit(e.c, <<Msg(warnTag, SinkError.message)>>) ELSE e
    ELSE Emit(c, <<Msg(warnTag, StopError.message)>>)

\* the rest of the success path once screenshotData is known: parse, attach the
\* screenshot, request the stop
AfterCapture(c, shot) ==
    LET d == [c EXCEPT !.screenshot = shot,
                       !.parsedResult = AttachScreenshot(ParseResult(c.result), shot)]
    IN  [IssueStop(d, "success") EXCEPT !.pc = "awaitStopOk"]

\* _captureCheckoutScreenshot's catch: report, return null
CaptureCatch(c, error) ==
    LET e == Emit(c, <<Msg("screenshotError", error.message)>>)
    IN  IF e.thrown THEN MainCatch(e.c, SinkError) ELSE AfterCapture(e.c, "null")

\* Promise.race resolved with the task's result
AfterRace(c, result) ==
    LET d == [c EXCEPT !.timer = ClearTimeout(@), !.result = result]
        e == Emit(d, <<Msg("taskCompleted", "")>>)
        f == Emit(e.c, <<Msg("capturing", "")>>)
    IN  IF e.thrown THEN MainCatch(e.c, SinkError)
        ELSE IF f.thrown THEN CaptureCatch(f.c, SinkError)
        ELSE [f.c EXCEPT !.pc = "awaitGet",
                         !.reqs = Append(@, [op |-> "get", sessionId |-> c.sessionId])]

\* RejectTimeout with the reject call left out of the timer callback
RejectTimeoutLost(c) == c

\* reject(new Error("Task timed out ...")) in the timer callback: it settles the race
\* only if the race is still pending
RejectTimeout(c) ==
    LET d == [c EXCEPT !.timeoutPromise = "rejected"]
    IN  IF d.pc = "awaitRace"
        THEN MainCatch([d EXCEPT !.raceWinner = "timeout"], TimeoutError)
        ELSE d

\* the messages sent before the task is submitted
TaskStartMessages(v) ==
    IF v = "stopThenReject"
    THEN <<Msg("taskStarting", ""), Msg("optimized", ""), Msg("timeoutProtection", "")>>
    ELSE <<Msg("taskStarting", "")>>


-----------------------------------------------------------------------------
(* The turns of one run *)

InitCall(sink, throwsOn) ==
    [ sink |-> sink, throwsOn |-> throwsOn,
      pc |-> "idle", sessionId |-> NullId, created |-> "none",
      timer |-> "unset", tpc |-> "none", timeoutPromise |-> "none",
      task |-> "unstarted", taskError |-> NoError,
      raceWinner |-> "none", deadlineFiredFirst |-> FALSE,
      error |-> NoError, result |-> NoResult, screenshot |-> "unset",
      parsedResult |-> NoRecord, outcome |-> NoOutcome, wOutcome |-> NoOutcome,
      reqs |-> <<>>, stops |-> <<>>, msgs |-> <<>> ]

\* extractCheckoutURLWithStreaming is called: up to the await of sessions.create
ExtractStart(c) ==
    LET e == Emit(c, <<Msg("starting", "")>>)
        f == Emit(e.c, <<Msg("creating", "")>>)
    IN  IF e.thrown THEN WrapperCatch([e.c EXCEPT !.pc = "skipped"], SinkError)
        ELSE IF f.thrown THEN MainCatch(f.c, SinkError)
        ELSE [f.c EXCEPT !.pc = "awaitCreate",
                         !.reqs = Append(@, [op |-> "create", sessionId |-> NullId])]

\* sessions.create answered, on success with the session id: arm the timer and
\* submit the task
OnCreateAs(c, ans, v, id) ==
    LET d == [c EXCEPT !.created = "ok", !.sessionId = id]
        e == Emit(d, <<Msg("created", id)>>)
        t == [e.c EXCEPT !.timer = "armed", !.timeoutPromise = "pending"]
        f == Emit(t, TaskStartMessages(v))
    IN  IF ans = "fail" THEN MainCatch([c EXCEPT !.created = "fail"], CreateError)
        ELSE IF e.thrown THEN MainCatch(e.c, SinkError)
        ELSE IF f.thrown THEN MainCatch(f.c, SinkError)
        ELSE [f.c EXCEPT !.pc = "awaitRace", !.task = "pending",
                         !.reqs = Append(@, [op |-> "task", sessionId |-> d.sessionId])]

\* sessions.create answered to the one call of a run
OnCreate(c, ans, v) == OnCreateAs(c, ans, v, SessionIdOfProvider)

\* the setTimeout callback starts
OnTimer(c, v) ==
    LET d == [c EXCEPT !.timer = "fired", !.deadlineFiredFirst = (c.task = "pending")]
    IN  IF v = "stopThenReject" /\ d.sessionId # NullId
        THEN [IssueStop(d, "timer") EXCEPT !.tpc = "awaitStop"]
        ELSE RejectTimeout([d EXCEPT !.tpc = "finished"])

\* the stop request of the timer callback answered: report, then reject
OnTimerStop(c, ans) ==
    LET e == StopReport(SettleStop(c, "timer", ans), ans, "stoppedTimeout", "stopWarnTimeout")
    IN  IF e.thrown THEN [e.c EXCEPT !.tpc = "died"]
        ELSE RejectTimeout([e.c EXCEPT !.tpc = "finished"])

\* startAndWait resolved with result
OnTaskResolved(c, result) ==
    LET d == [c EXCEPT !.task = "resolved"]
    IN  IF c.pc = "awaitRace"
        THEN AfterRace([d EXCEPT !.raceWinner = "resolved"], result)
        ELSE d

\* OnTaskRejected with the task's error replaced by the timeout error
OnTaskRejectedAsTimeout(c, error) ==
    LET d == [c EXCEPT !.task = "rejected", !.taskError = error]
    IN  IF c.pc = "awaitRace"
        THEN MainCatch([d EXCEPT !.raceWinner = "rejected"], TimeoutError)
        ELSE d

\* OnTaskRejected that submits the task again instead of giving up
OnTaskRejectedRetries(c, error) ==
    LET d == [c EXCEPT !.task = "rejected", !.taskError = error]
    IN  IF c.pc = "awaitRace"
        THEN [d EXCEPT !.task = "pending",
                       !.reqs = Append(@, [op |-> "task", sessionId |-> c.sessionId])]
        ELSE d

\* startAndWait rejected with error
OnTaskRejected(c, error) ==
    LET d == [c EXCEPT !.task = "rejected", !.taskError = error]
    IN  IF c.pc = "awaitRace"
        THEN MainCatch([d EXCEPT !.raceWinner = "rejected"], error)
        ELSE d

\* sessions.get answered inside _captureCheckoutScreenshot
OnGet(c, ans) ==
    LET tags == IF ans = "null" THEN <<Msg("noDetails", "")>>
                ELSE IF ans = "noLiveUrl" THEN <<Msg("noLiveUrl", "")>>
                ELSE <<Msg("liveUrl", "url"), Msg("screenshotDone", "")>>
        e == Emit(c, tags)
    IN  IF ans = "fail" THEN CaptureCatch(c, GetError)
        ELSE IF e.thrown THEN CaptureCatch(e.c, SinkError)
        ELSE AfterCapture(e.c, IF ans = "liveUrl" THEN "live_url_available" ELSE "null")

\* the stop request of the success path answered: report, return the record
OnSuccessStop(c, ans) ==
    LET e == StopReport(SettleStop(c, "success", ans), ans, "stoppedOk", "stopWarnClean")
    IN  IF e.thrown THEN MainCatch(e.c, SinkError)
        ELSE Return(e.c, e.c.parsedResult)

\* OnCatchStop with a failed stop rethrown instead of downgraded to a warning
OnCatchStopRethrows(c, ans) ==
    LET e == StopReport(SettleStop(c, "catch", ans), ans, "stoppedError", "stopWarnError")
    IN  IF e.thrown THEN Throw(e.c, SinkError)
        ELSE IF ans = "fail" THEN Throw(e.c, StopError)
        ELSE Throw(e.c, e.c.error)

\* the stop request of the catch block answered: report, rethrow
OnCatchStop(c, ans) ==
    LET e == StopReport(SettleStop(c, "catch", ans), ans, "stoppedError", "stopWarnError")
    IN  IF e.thrown THEN Throw(e.c, SinkError)
        ELSE Throw(e.c, e.c.error)

-----------------------------------------------------------------------------
(* Specification *)

(***************************************************************************)
(* _parseAgentResponse.  A text is a sequence of lines and a line a        *)
(* sequence of whitespace-separated tokens: a KEY: label, a URL (scheme,   *)
(* host and path) or another word.  A string value is the sequence of its  *)
(* tokens, the empty string the empty sequence.  Two tokens that follow    *)
(* each other are one blank apart; Space is further white space, as at the *)
(* start or the end of a line, and Comma a comma.                          *)
(***************************************************************************)
Url(host, path) == [kind |-> "url", host |-> host, rest |-> path]
Word(w) == [kind |-> "word", host |-> "", rest |-> w]
Key(k) == [kind |-> "key", host |-> "", rest |-> k]
Space == [kind |-> "space", host |-> "", rest |-> " "]
Comma == [kind |-> "comma", host |-> "", rest |-> ","]

\* string.trim(): the string without the white space at its two ends
RECURSIVE Trim(_)
Trim(s) ==
    IF s = <<>> THEN s
    ELSE IF Head(s) = Space THEN Trim(Tail(s))
    ELSE IF s[Len(s)] = Space THEN Trim(SubSeq(s, 1, Len(s) - 1))
    ELSE s

\* string.split(','): the pieces between the commas, empty ones included
RECURSIVE Split(_, _)
Split(s, piece) ==
    IF s = <<>> THEN <<piece>>
    ELSE IF Head(s) = Comma THEN <<piece>> \o Split(Tail(s), <<>>)
    ELSE Split(Tail(s), Append(piece, Head(s)))

\* pieces.map(p => p.trim())
TrimEach(pieces) == [i \in DOMAIN pieces |-> Trim(pieces[i])]

\* pieces.filter(p => p)
NonEmpty(pieces) == SelectSeq(pieces, LAMBDA p : p # <<>>)

\* providersText.split(',').map(p => p.trim()).filter(p => p)
ProviderList(providersText) == NonEmpty(TrimEach(Split(providersText, <<>>)))

\* a property of the result object: absent, or present with a value
Unset == [set |-> FALSE, value |-> <<>>]
Field(v) == [set |-> TRUE, value |-> v]

\* const result = {}
EmptyResult ==
    [error |-> Unset, payment_url |-> Unset, checkout_url |-> Unset,
     payment_providers |-> Unset, steps_completed |-> Unset, raw_response |-> Unset]

\* return { error: 'No response from agent' }
NoResponse == [EmptyResult EXCEPT !.error = Field(<<Word("No response from agent")>>)]

\* !responseText: undefined, null and the empty string
IsFalsyText(text) == ~text.given \/ text.lines = <<>>

\* !value of a result property
IsFalsy(f) == ~f.set \/ f.value = <<>>

\* /^https?:\/\//i.test(value)
StartsWithScheme(f) == f.set /\ f.value # <<>> /\ f.value[1].kind = "url"

\* trimmedLine.startsWith(key)
StartsWith(line, k) == line # <<>> /\ line[1] = Key(k)

\* ValueAfterKey with the label left in the value
ValueWithKey(line) == line

\* trimmedLine.replace(key, '').trim(), for a trimmed line that starts with key
ValueAfterKey(line) == Trim(Tail(line))

\* the hosts and paths of the URLs below
OriginHost == "shop.example.dk"
GatewayHost == "pay.altapaysecure.com"
OtherHost == "cdn.example.net"
Hosts == {OriginHost, GatewayHost, OtherHost}
Paths == {"/abc123", "/checkout", "/login"}

IsUrl(t) == t.kind = "url"

\* the matches of /(https?:\/\/[^\s\]\)\">]+)$/gmi in a line: with the m flag $ is
\* the end of the line, so a URL matches only where nothing follows it on its line
MatchesAtLineEnd(line) ==
    IF line # <<>> /\ IsUrl(line[Len(line)]) THEN <<line[Len(line)]>> ELSE <<>>

\* the matches of /(https?:\/\/[^\s\]\)\">]+)/gmi in a line: every URL of the line
MatchesAnywhere(line) == SelectSeq(line, IsUrl)

\* [...responseText.matchAll(urlRegex)].map(m => m[1])
RECURSIVE MatchAll(_, _)
MatchAll(lines, anchored) ==
    IF lines = <<>> THEN <<>>
    ELSE (IF anchored THEN MatchesAtLineEnd(Head(lines)) ELSE MatchesAnywhere(Head(lines)))
            \o MatchAll(Tail(lines), anchored)

\* Array.from(new Set(matches)): the first occurrence of each value, in order
RECURSIVE Unique(_)
Unique(s) ==
    IF s = <<>> THEN <<>>
    ELSE LET u == Unique(SubSeq(s, 1, Len(s) - 1))
             x == s[Len(s)]
         IN  IF \E i \in DOMAIN u : u[i] = x THEN u ELSE Append(u, x)

\* array[0], and array.find(test) as First(SelectSeq(array, test)): a string of
\* one URL, or undefined (the empty sequence)
First(s) == IF s = <<>> THEN <<>> ELSE <<s[1]>>

\* a || b
OrElse(a, b) == IF a # <<>> THEN a ELSE b

\* new URL(originalCheckoutUrl || '').host, '' when the constructor throws
OrigHost(original) ==
    IF original # <<>> /\ IsUrl(original[1]) THEN original[1].host ELSE ""

\* origHost && new URL(u).host !== origHost
isExternal(u, origHost) == origHost # "" /\ u.host # origHost

\* the gateway keyword regex tested on the lower-cased URL: of the hosts and paths
\* above, pay.altapaysecure.com holds "altapaysecure" and /checkout holds "checkout"
looksLikeGateway(u) == u.host = GatewayHost \/ u.rest = "/checkout"

\* /login|signin|signup|register|account\/login|account\/signup|auth/i.test(u)
isLoginUrl(u) == u.rest = "/login"

\* /checkout|checkouts|cart|kasse|.../i.test(u)
looksLikeCheckout(u) == u.rest = "/checkout"

\* PreferredPayment with the two middle tests of the cascade exchanged
PreferredExternalFirst(unique, origHost) ==
    LET Both(u) == isExternal(u, origHost) /\ looksLikeGateway(u)
        External(u) == isExternal(u, origHost)
    IN  OrElse(First(SelectSeq(unique, Both)),
        OrElse(First(SelectSeq(unique, External)),
        OrElse(First(SelectSeq(unique, looksLikeGateway)), First(unique))))

\* const preferred = unique.find(external gateway) || unique.find(gateway)
\*     || unique.find(external) || unique[0]
PreferredPayment(unique, origHost) ==
    LET Both(u) == isExternal(u, origHost) /\ looksLikeGateway(u)
        External(u) == isExternal(u, origHost)
    IN  OrElse(First(SelectSeq(unique, Both)),
        OrElse(First(SelectSeq(unique, looksLikeGateway)),
        OrElse(First(SelectSeq(unique, External)), First(unique))))

\* const preferred = checkoutUrls[0] || unique.find(u => !isLoginUrl(u)) || unique[0]
PreferredCheckout(unique) ==
    LET Checkout(u) == looksLikeCheckout(u) /\ ~isLoginUrl(u)
        NotLogin(u) == ~isLoginUrl(u)
    IN  OrElse(First(SelectSeq(unique, Checkout)),
        OrElse(First(SelectSeq(unique, NotLogin)), First(unique)))

\* the loop over the lines in paymentAgentV2.js and backupPaymentAgent.js (of
\* the labels that only store the trimmed rest of their line, STEPS_COMPLETED:
\* stands for PAYMENT_GATEWAY:, FORM_FILLED:, ISSUES_ENCOUNTERED: and
\* SCREENSHOT_READY: too)
RECURSIVE PaymentLines(_, _)
PaymentLines(lines, result) ==
    IF lines = <<>> THEN result
    ELSE LET trimmedLine == Trim(Head(lines))
         IN  PaymentLines(Tail(lines),
                IF StartsWith(trimmedLine, "PAYMENT_URL:")
                THEN [result EXCEPT !.payment_url = Field(ValueAfterKey(trimmedLine))]
                ELSE IF StartsWith(trimmedLine, "PAYMENT_PROVIDERS:")
                THEN [result EXCEPT !.payment_providers =
                                        Field(ProviderList(ValueAfterKey(trimmedLine)))]
                ELSE IF StartsWith(trimmedLine, "CHECKOUT_URL:")
                THEN [result EXCEPT !.checkout_url = Field(ValueAfterKey(trimmedLine))]
                ELSE IF StartsWith(trimmedLine, "STEPS_COMPLETED:")
                THEN [result EXCEPT !.steps_completed = Field(ValueAfterKey(trimmedLine))]
                ELSE result)

\* the loop over the lines in checkoutAgent.js, which has no PAYMENT_URL: label
RECURSIVE CheckoutLines(_, _)
CheckoutLines(lines, result) ==
    IF lines = <<>> THEN result
    ELSE LET trimmedLine == Trim(Head(lines))
         IN  CheckoutLines(Tail(lines),
                IF StartsWith(trimmedLine, "CHECKOUT_URL:")
                THEN [result EXCEPT !.checkout_url = Field(ValueAfterKey(trimmedLine))]
                ELSE IF StartsWith(trimmedLine, "PAYMENT_PROVIDERS:")
                THEN [result EXCEPT !.payment_providers =
                                        Field(ProviderList(ValueAfterKey(trimmedLine)))]
                ELSE IF StartsWith(trimmedLine, "STEPS_COMPLETED:")
                THEN [result EXCEPT !.steps_completed = Field(ValueAfterKey(trimmedLine))]
                ELSE result)

\* the loop over the lines in paymentAgent.js, which has no PAYMENT_PROVIDERS: label
RECURSIVE PaymentV1Lines(_, _)
PaymentV1Lines(lines, result) ==
    IF lines = <<>> THEN result
    ELSE LET trimmedLine == Trim(Head(lines))
         IN  PaymentV1Lines(Tail(lines),
                IF StartsWith(trimmedLine, "PAYMENT_URL:")
                THEN [result EXCEPT !.payment_url = Field(ValueAfterKey(trimmedLine))]
                ELSE IF StartsWith(trimmedLine, "CHECKOUT_URL:")
                THEN [result EXCEPT !.checkout_url = Field(ValueAfterKey(trimmedLine))]
                ELSE IF StartsWith(trimmedLine, "STEPS_COMPLETED:")
                THEN [result EXCEPT !.steps_completed = Field(ValueAfterKey(trimmedLine))]
                ELSE result)

\* const paymentKeywords = [...]
paymentKeywords ==
    <<"Visa", "Mastercard", "PayPal", "Stripe", "Adyen", "Klarna", "Afterpay",
      "Shop Pay", "Google Pay", "Apple Pay", "CB", "Carte Bancaire", "American Express",
      "PayPlug", "Lyra", "Sofort", "iDEAL", "Bancontact", "SEPA">>

\* string.toLowerCase(), on the keywords and on the words of the texts
toLowerCase(w) ==
    CASE w \in {"Visa", "VISA"} -> "visa"
      [] w = "Mastercard" -> "mastercard"
      [] w \in {"PayPal", "Paypal"} -> "paypal"
      [] w = "Stripe" -> "stripe"
      [] w = "Adyen" -> "adyen"
      [] w = "Klarna" -> "klarna"
      [] w = "Afterpay" -> "afterpay"
      [] w = "Shop Pay" -> "shop pay"
      [] w = "Google Pay" -> "google pay"
      [] w = "Apple Pay" -> "apple pay"
      [] w = "CB" -> "cb"
      [] w = "Carte Bancaire" -> "carte bancaire"
      [] w = "American Express" -> "american express"
      [] w = "PayPlug" -> "payplug"
      [] w = "Lyra" -> "lyra"
      [] w = "Sofort" -> "sofort"
      [] w = "iDEAL" -> "ideal"
      [] w = "Bancontact" -> "bancontact"
      [] w = "SEPA" -> "sepa"
      [] OTHER -> w

\* responseLower.includes(provider.toLowerCase()): in the texts below a keyword
\* occurs only as a whole word
Includes(text, provider) ==
    \E i \in DOMAIN text.lines : \E j \in DOMAIN text.lines[i] :
        /\ text.lines[i][j].kind = "word"
        /\ toLowerCase(text.lines[i][j].rest) = toLowerCase(provider)

\* foundProviders: the keywords the text includes, in the order of paymentKeywords
FoundProviders(text) ==
    LET found == SelectSeq(paymentKeywords, LAMBDA provider : Includes(text, provider))
    IN  [i \in DOMAIN found |-> <<Word(found[i])>>]

\* the candidates of the payment-URL fallback
PaymentCandidates(text) == Unique(MatchAll(text.lines, TRUE))

\* the candidates of the checkout-URL fallback
CheckoutCandidates(text) == Unique(MatchAll(text.lines, FALSE))

\* _parseAgentResponse(responseText, originalCheckoutUrl) of paymentAgentV2.js
ParsePaymentResponse(text, original) ==
    IF IsFalsyText(text) THEN NoResponse
    ELSE LET primary == PaymentLines(text.lines, EmptyResult)
             preferred == PreferredPayment(PaymentCandidates(text), OrigHost(original))
             withUrl == IF IsFalsy(primary.payment_url) /\ preferred # <<>>
                        THEN [primary EXCEPT !.payment_url = Field(preferred)]
                        ELSE primary
         IN  [withUrl EXCEPT !.raw_response = Field(text.lines)]

\* _parseAgentResponse(responseText) of checkoutAgent.js: the loop, the URL
\* fallback and the provider fallback (website_name and product_added are left out)
ParseCheckoutResponse(text) ==
    IF IsFalsyText(text) THEN NoResponse
    ELSE LET primary == CheckoutLines(text.lines, EmptyResult)
             preferred == PreferredCheckout(CheckoutCandidates(text))
             withUrl == IF (IsFalsy(primary.checkout_url)
                                \/ ~StartsWithScheme(primary.checkout_url))
                            /\ preferred # <<>>
                        THEN [primary EXCEPT !.checkout_url = Field(preferred)]
                        ELSE primary
             foundProviders == FoundProviders(text)
             withProviders == IF IsFalsy(withUrl.payment_providers)
                                    /\ foundProviders # <<>>
                              THEN [withUrl EXCEPT !.payment_providers =
                                                       Field(foundProviders)]
                              ELSE withUrl
         IN  [withProviders EXCEPT !.raw_response = Field(text.lines)]

\* _parseAgentResponse(responseText) of paymentAgent.js: the loop only
ParsePaymentV1Response(text) ==
    IF IsFalsyText(text) THEN NoResponse
    ELSE [PaymentV1Lines(text.lines, EmptyResult) EXCEPT !.raw_response = Field(text.lines)]

\* no parser call is in progress
NoParse ==
    [parser |-> "none", phase |-> "idle", text |-> [given |-> FALSE, lines |-> <<>>],
     original |-> <<>>, result |-> EmptyResult]

-----------------------------------------------------------------------------
(***************************************************************************)
(* _inferCountryProfile: the locale profile of a checkout URL.  A string   *)
(* is the sequence of its characters; the one character of the markers     *)
(* outside ASCII is written "c-cedilla", and the profile values are        *)
(* written in ASCII (Mueller, Hauptstrasse, Marszalkowska, Zaplac).        *)
(***************************************************************************)
\* the three definitions of the method: paymentAgentV2.js:35 always answers the
\* French profile, :444 (and backupPaymentAgent.js:35) and :953 are cascades
Resolvers == {"frenchOnly", "cascadeB", "cascadeC"}

\* String.prototype.toLowerCase on the characters of a string
lowerCased(chars) ==
    LET UpperCase ==
        <<"A", "B", "C", "D", "E", "F", "G", "H", "I", "J", "K", "L", "M",
          "N", "O", "P", "Q", "R", "S", "T", "U", "V", "W", "X", "Y", "Z">>
        LowerCase ==
        <<"a", "b", "c", "d", "e", "f", "g", "h", "i", "j", "k", "l", "m",
          "n", "o", "p", "q", "r", "s", "t", "u", "v", "w", "x", "y", "z">>
    IN  [i \in 1..Len(chars) |->
            IF \E k \in 1..Len(UpperCase) : UpperCase[k] = chars[i]
            THEN LowerCase[CHOOSE k \in 1..Len(UpperCase) : UpperCase[k] = chars[i]]
            ELSE chars[i]]

\* const urlStr = (checkoutUrl || '').toLowerCase(): a missing and an empty
\* argument are both falsy
urlStr(checkoutUrl) ==
    IF ~checkoutUrl.given \/ checkoutUrl.chars = <<>> THEN <<>>
    ELSE lowerCased(checkoutUrl.chars)

\* const has = (s) => urlStr.includes(s)
has(str, s) ==
    \E i \in 0..(Len(str) - Len(s)) : SubSeq(str, i + 1, i + Len(s)) = s

\* the markers of each locale in the cascade of paymentAgentV2.js:444, in the
\* order of its branches
MarkersB ==
    [dk |->
        {<<".", "d", "k">>,
        <<"d", "a", "-", "d", "k">>,
        <<"/", "d", "a">>,
        <<"l", "a", "n", "g", "=", "d", "a">>,
        <<"l", "o", "c", "a", "l", "e", "=", "d", "a">>},
     de |->
        {<<".", "d", "e">>,
        <<"d", "e", "-", "d", "e">>,
        <<"l", "a", "n", "g", "=", "d", "e">>,
        <<"l", "o", "c", "a", "l", "e", "=", "d", "e">>},
     it |->
        {<<".", "i", "t">>,
        <<"i", "t", "-", "i", "t">>,
        <<"l", "a", "n", "g", "=", "i", "t">>,
        <<"l", "o", "c", "a", "l", "e", "=", "i", "t">>},
     es |->
        {<<".", "e", "s">>,
        <<"e", "s", "-", "e", "s">>,
        <<"l", "a", "n", "g", "=", "e", "s">>,
        <<"l", "o", "c", "a", "l", "e", "=", "e", "s">>},
     pl |->
        {<<".", "p", "l">>,
        <<"p", "l", "-", "p", "l">>,
        <<"l", "a", "n", "g", "=", "p", "l">>,
        <<"l", "o", "c", "a", "l", "e", "=", "p", "l">>},
     fr |->
        {<<".", "f", "r">>,
        <<"f", "r", "-", "f", "r">>,
        <<"l", "a", "n", "g", "=", "f", "r">>,
        <<"l", "o", "c", "a", "l", "e", "=", "f", "r">>}]

\* the markers of each locale in the cascade of paymentAgentV2.js:953, in the
\* order of its branches
MarkersC ==
    [it |->
        {<<".", "i", "t">>,
        <<"i", "t", "-", "i", "t">>,
        <<"i", "t", "_", "i", "t">>,
        <<"l", "a", "n", "g", "=", "i", "t">>,
        <<"l", "o", "c", "a", "l", "e", "=", "i", "t">>,
        <<"i", "t", "a", "l", "i", "a">>,
        <<"i", "t", "a", "l", "i", "a", "n", "o">>,
        <<"i", "t", "a", "l", "i", "a", "n">>,
        <<"m", "i", "l", "a", "n", "o">>,
        <<"r", "o", "m", "a">>,
        <<"n", "a", "p", "o", "l", "i">>,
        <<"t", "o", "r", "i", "n", "o">>,
        <<"f", "i", "r", "e", "n", "z", "e">>,
        <<"b", "o", "l", "o", "g", "n", "a">>,
        <<"v", "e", "n", "e", "z", "i", "a">>},
     fr |->
        {<<".", "f", "r">>,
        <<"f", "r", "-", "f", "r">>,
        <<"f", "r", "_", "f", "r">>,
        <<"l", "a", "n", "g", "=", "f", "r">>,
        <<"l", "o", "c", "a", "l", "e", "=", "f", "r">>,
        <<"f", "r", "a", "n", "c", "e">>,
        <<"f", "r", "a", "n", "c-cedilla", "a", "i", "s">>,
        <<"f", "r", "a", "n", "c", "a", "i", "s">>,
        <<"f", "r", "e", "n", "c", "h">>,
        <<"p", "a", "r", "i", "s">>,
        <<"l", "y", "o", "n">>,
        <<"m", "a", "r", "s", "e", "i", "l", "l", "e">>,
        <<"t", "o", "u", "l", "o", "u", "s", "e">>,
        <<"n", "i", "c", "e">>,
        <<"n", "a", "n", "t", "e", "s">>,
        <<"b", "o", "r", "d", "e", "a", "u", "x">>,
        <<"l", "i", "l", "l", "e">>,
        <<"s", "t", "r", "a", "s", "b", "o", "u", "r", "g">>,
        <<"r", "e", "n", "n", "e", "s">>,
        <<"m", "o", "n", "t", "p", "e", "l", "l", "i", "e", "r">>},
     dk |->
        {<<".", "d", "k">>,
        <<"d", "a", "-", "d", "k">>,
        <<"/", "d", "a">>,
        <<"l", "a", "n", "g", "=", "d", "a">>,
        <<"l", "o", "c", "a", "l", "e", "=", "d", "a">>},
     de |->
        {<<".", "d", "e">>,
        <<"d", "e", "-", "d", "e">>,
        <<"l", "a", "n", "g", "=", "d", "e">>,
        <<"l", "o", "c", "a", "l", "e", "=", "d", "e">>},
     es |->
        {<<".", "e", "s">>,
        <<"e", "s", "-", "e", "s">>,
        <<"l", "a", "n", "g", "=", "e", "s">>,
        <<"l", "o", "c", "a", "l", "e", "=", "e", "s">>},
     pl |->
        {<<".", "p", "l">>,
        <<"p", "l", "-", "p", "l">>,
        <<"l", "a", "n", "g", "=", "p", "l">>,
        <<"l", "o", "c", "a", "l", "e", "=", "p", "l">>}]

\* the profile paymentAgentV2.js:37-48 returns for every URL
FrenchProfile ==
    [code |-> "fr", acceptLanguage |-> "fr-FR,fr;q=0.9,en;q=0.8",
     firstName |-> "Marie", lastName |-> "Dubois",
     address |-> "15 Rue de Rivoli", postalCode |-> "75001",
     city |-> "Paris", phone |-> "01 23 45 67 89",
     cardLabel |-> "Carte bancaire", payLabel |-> "Payer maintenant"]

\* the profiles of paymentAgentV2.js:444-559: the default one and one per locale
ProfilesB ==
    [default |->
        [code |-> "default", acceptLanguage |-> "en-US,en;q=0.9",
         firstName |-> "John", lastName |-> "Smith", address |-> "123 Main St",
         postalCode |-> "12345", city |-> "New York",
         phone |-> "+1 555 123 4567", cardLabel |-> "Credit Card",
         payLabel |-> "Pay Now"],
     dk |->
        [code |-> "dk", acceptLanguage |-> "da-DK,da;q=0.9,en;q=0.8",
         firstName |-> "Lars", lastName |-> "Hansen",
         address |-> "Hovedgade 12", postalCode |-> "8200", city |-> "Aarhus",
         phone |-> "22 33 11 11", cardLabel |-> "Betalingskort",
         payLabel |-> "Betal nu"],
     de |->
        [code |-> "de", acceptLanguage |-> "de-DE,de;q=0.9,en;q=0.8",
         firstName |-> "Hans", lastName |-> "Mueller",
         address |-> "Hauptstrasse 12", postalCode |-> "10115",
         city |-> "Berlin", phone |-> "+49 30 12345678",
         cardLabel |-> "Kreditkarte", payLabel |-> "Jetzt bezahlen"],
     it |->
        [code |-> "it", acceptLanguage |-> "it-IT,it;q=0.9,en;q=0.8",
         firstName |-> "Giuseppe", lastName |-> "Rossi",
         address |-> "Via Roma 45", postalCode |-> "20100", city |-> "Milano",
         phone |-> "+39 02 12345678", cardLabel |-> "Carta di credito",
         payLabel |-> "Paga ora"],
     es |->
        [code |-> "es", acceptLanguage |-> "es-ES,es;q=0.9,en;q=0.8",
         firstName |-> "Carlos", lastName |-> "Lopez",
         address |-> "Calle Mayor 8", postalCode |-> "28001",
         city |-> "Madrid", phone |-> "+34 91 12345678",
         cardLabel |-> "Tarjeta", payLabel |-> "Pagar ahora"],
     pl |->
        [code |-> "pl", acceptLanguage |-> "pl-PL,pl;q=0.9,en;q=0.8",
         firstName |-> "Jan", lastName |-> "Kowalski",
         address |-> "ul. Marszalkowska 123", postalCode |-> "00-001",
         city |-> "Warszawa", phone |-> "+48 22 12345678",
         cardLabel |-> "Karta", payLabel |-> "Zaplac teraz"],
     fr |->
        [code |-> "fr", acceptLanguage |-> "fr-FR,fr;q=0.9,en;q=0.8",
         firstName |-> "Marie", lastName |-> "Dubois",
         address |-> "Rue de Rivoli 123", postalCode |-> "75001",
         city |-> "Paris", phone |-> "+33 1 23 45 67 89",
         cardLabel |-> "Carte bancaire", payLabel |-> "Payer maintenant"]]

\* the profiles of paymentAgentV2.js:953-1073: the default one and one per locale
ProfilesC ==
    [default |->
        [code |-> "default",
         acceptLanguage |-> "en-GB,en;q=0.9,fr;q=0.8,de;q=0.7,it;q=0.6,es;q=0.5,da;q=0.4,pl;q=0.3",
         firstName |-> "James", lastName |-> "Smith",
         address |-> "15 High Street", postalCode |-> "SW1A 1AA",
         city |-> "London", phone |-> "+44 20 7946 0958",
         cardLabel |-> "Credit Card", payLabel |-> "Pay Now"],
     it |->
        [code |-> "it", acceptLanguage |-> "it-IT,it;q=0.9,en;q=0.8",
         firstName |-> "Giuseppe", lastName |-> "Rossi",
         address |-> "Via Roma 45", postalCode |-> "20100", city |-> "Milano",
         phone |-> "+39 02 12345678", cardLabel |-> "Carta di credito",
         payLabel |-> "Paga ora"],
     fr |->
        [code |-> "fr", acceptLanguage |-> "fr-FR,fr;q=0.9,en;q=0.8",
         firstName |-> "Marie", lastName |-> "Dubois",
         address |-> "15 Rue de Rivoli", postalCode |-> "75001",
         city |-> "Paris", phone |-> "01 23 45 67 89",
         cardLabel |-> "Carte bancaire", payLabel |-> "Payer maintenant"],
     dk |->
        [code |-> "dk", acceptLanguage |-> "da-DK,da;q=0.9,en;q=0.8",
         firstName |-> "Lars", lastName |-> "Hansen",
         address |-> "Hovedgade 12", postalCode |-> "8200", city |-> "Aarhus",
         phone |-> "22 33 11 11", cardLabel |-> "Betalingskort",
         payLabel |-> "Betal nu"],
     de |->
        [code |-> "de", acceptLanguage |-> "de-DE,de;q=0.9,en;q=0.8",
         firstName |-> "Hans", lastName |-> "Mueller",
         address |-> "Hauptstrasse 12", postalCode |-> "10115",
         city |-> "Berlin", phone |-> "+49 30 12345678",
         cardLabel |-> "Kreditkarte", payLabel |-> "Jetzt bezahlen"],
     es |->
        [code |-> "es", acceptLanguage |-> "es-ES,es;q=0.9,en;q=0.8",
         firstName |-> "Carlos", lastName |-> "Lopez",
         address |-> "Calle Mayor 8", postalCode |-> "28001",
         city |-> "Madrid", phone |-> "+34 91 12345678",
         cardLabel |-> "Tarjeta", payLabel |-> "Pagar ahora"],
     pl |->
        [code |-> "pl", acceptLanguage |-> "pl-PL,pl;q=0.9,en;q=0.8",
         firstName |-> "Jan", lastName |-> "Kowalski",
         address |-> "ul. Marszalkowska 123", postalCode |-> "00-001",
         city |-> "Warszawa", phone |-> "+48 22 12345678",
         cardLabel |-> "Karta", payLabel |-> "Zaplac teraz"]]

\* _inferCountryProfile of paymentAgentV2.js:444-559: the first branch whose
\* condition holds assigns the profile
inferCountryProfileB(checkoutUrl) ==
    LET str == urlStr(checkoutUrl)
        matches(markers) == \E s \in markers : has(str, s)
    IN  IF matches(MarkersB.dk) THEN ProfilesB.dk
        ELSE IF matches(MarkersB.de) THEN ProfilesB.de
        ELSE IF matches(MarkersB.it) THEN ProfilesB.it
        ELSE IF matches(MarkersB.es) THEN ProfilesB.es
        ELSE IF matches(MarkersB.pl) THEN ProfilesB.pl
        ELSE IF matches(MarkersB.fr) THEN ProfilesB.fr
        ELSE ProfilesB.default

\* the cascade of paymentAgentV2.js:953-1073 with the last matching branch
\* deciding
inferCountryProfileLastWins(checkoutUrl) ==
    LET str == urlStr(checkoutUrl)
        matches(markers) == \E s \in markers : has(str, s)
    IN  IF matches(MarkersC.pl) THEN ProfilesC.pl
        ELSE IF matches(MarkersC.es) THEN ProfilesC.es
        ELSE IF matches(MarkersC.de) THEN ProfilesC.de
        ELSE IF matches(MarkersC.dk) THEN ProfilesC.dk
        ELSE IF matches(MarkersC.fr) THEN ProfilesC.fr
        ELSE IF matches(MarkersC.it) THEN ProfilesC.it
        ELSE ProfilesC.default

\* _inferCountryProfile of paymentAgentV2.js:953-1073: the first branch whose
\* condition holds assigns the profile
inferCountryProfileC(checkoutUrl) ==
    LET str == urlStr(checkoutUrl)
        matches(markers) == \E s \in markers : has(str, s)
    IN  IF matches(MarkersC.it) THEN ProfilesC.it
        ELSE IF matches(MarkersC.fr) THEN ProfilesC.fr
        ELSE IF matches(MarkersC.dk) THEN ProfilesC.dk
        ELSE IF matches(MarkersC.de) THEN ProfilesC.de
        ELSE IF matches(MarkersC.es) THEN ProfilesC.es
        ELSE IF matches(MarkersC.pl) THEN ProfilesC.pl
        ELSE ProfilesC.default

\* _inferCountryProfile of paymentAgentV2.js:35-49
inferCountryProfileA(checkoutUrl) == FrenchProfile

\* the method of the class in use
inferCountryProfile(resolver, checkoutUrl) ==
    IF resolver = "frenchOnly" THEN inferCountryProfileA(checkoutUrl)
    ELSE IF resolver = "cascadeB" THEN inferCountryProfileB(checkoutUrl)
    ELSE inferCountryProfileC(checkoutUrl)

\* the characters every well-formed URL of the inputs starts with
SchemeAndHost ==
    <<"h", "t", "t", "p", "s", ":", "/", "/", "b", "o", "u", "t", "i", "q", "u", "e", ".", "e", "x", "a", "m", "p", "l", "e">>

\* the arguments of _inferCountryProfile: a missing argument, the empty string,
\* a string that is no URL, and the URLs put together from a domain suffix, a
\* path and a query string
CheckoutUrls ==
    LET DomainSuffixes ==
            {<<".", "f", "r">>,
             <<".", "d", "k">>,
             <<".", "d", "e">>,
             <<".", "i", "t">>,
             <<".", "e", "s">>,
             <<".", "p", "l">>,
             <<".", "c", "o", "m">>,
             <<".", "D", "K">>}
        UrlPaths ==
            {<<"/", "p", "a", "n", "i", "e", "r">>,
             <<"/", "d", "a">>,
             <<"/", "r", "o", "m", "a">>,
             <<"/", "P", "A", "R", "I", "S">>,
             <<"/", "d", "a", "s", "h", "b", "o", "a", "r", "d">>}
        UrlQueries ==
            {<<>>,
             <<"?", "l", "a", "n", "g", "=", "f", "r">>,
             <<"?", "l", "o", "c", "a", "l", "e", "=", "i", "t">>}
        MalformedUrls ==
            {<<"h", "t", "!", "t", "p", ":", "/", "x", " ", "y">>}
    IN  {[given |-> FALSE, chars |-> <<>>], [given |-> TRUE, chars |-> <<>>]}
        \cup {[given |-> TRUE, chars |-> u] : u \in MalformedUrls}
        \cup {[given |-> TRUE, chars |-> SchemeAndHost \o d \o p \o q] :
                 d \in DomainSuffixes, p \in UrlPaths, q \in UrlQueries}

\* the URLs resolved between two resolutions of the target URL
InBetweenUrls ==
    {[given |-> TRUE,
      chars |-> SchemeAndHost \o <<".", "f", "r">> \o <<"/", "p", "a", "n", "i", "e", "r">>]}

\* what every class answers to every argument, computed once
ProfileOf ==
    [r \in Resolvers |-> [u \in CheckoutUrls |-> inferCountryProfile(r, u)]]

\* return { ... }: the object literal makes a new object on every call; the
\* heap is the sequence of the objects made so far
NewObjectShared(heap, profile) ==
    IF heap = <<>> THEN <<profile>> ELSE heap

NewObject(heap, profile) == Append(heap, profile)

\* no profile was resolved yet
NoLocale ==
    [resolver |-> "none", target |-> [given |-> FALSE, chars |-> <<>>],
     heap |-> <<>>, returned |-> <<>>]

-----------------------------------------------------------------------------
(***************************************************************************)
(* app.js: requests in flight at once.  Each request registers a record in *)
(* activeSessions under a fresh identifier and runs one bounded call whose *)
(* sink appends to that record; the provider answers every call.           *)
(***************************************************************************)
Requests == {"reqA", "reqB"}

\* the identifiers uuidv4() can return
SessionKeys == {"id1", "id2"}

\* the session ids sessions.create can return
ProviderIds == {SessionIdOfProvider, "s2"}

\* the provider's answers to the calls of the requests: one result, one error,
\* a live URL or a failed lookup
AppTaskResults == {[shape |-> "data", text |-> "CHECKOUT_URL: u"]}
AppTaskErrors == {Err("agent failed")}
AppGetAnswers == {"liveUrl", "fail"}

\* activeSessions has no entry under a key
NoEntry ==
    [present |-> FALSE, url |-> "", status |-> "", progress |-> <<>>,
     result |-> NoRecord, error |-> "", end_time |-> "unset"]

\* the server before any request
NoApp ==
    [phase |-> [q \in Requests |-> "none"],
     endpoint |-> [q \in Requests |-> "analyze"],
     id |-> [q \in Requests |-> "none"],
     calls |-> [q \in Requests |-> InitCall("present", {})],
     activeSessions |-> [k \in SessionKeys |-> NoEntry],
     server |-> "app.js", apiKey |-> TRUE,
     body |-> [q \in Requests |-> "url"],
     answer |-> [q \in Requests |-> "none"],
     watchdog |-> [q \in Requests |-> "unset"],
     provider |-> [owner |-> [s \in ProviderIds |-> "none"], latest |-> NullId,
                   log |-> {}]]

\* an identifier that repeats
uuidv4Repeats(used) == "id1"

\* uuidv4(): an identifier no earlier call returned
uuidv4(used) == CHOOSE k \in SessionKeys : k \notin used

\* the keys handed out so far
UsedKeys == {app.id[q] : q \in Requests} \ {"none"}

\* the session id of the provider's next session
FreshSessionId(provider) == CHOOSE s \in ProviderIds : provider.owner[s] = "none"

\* activeSessions.set(sessionId, { url, status, start_time, progress: [], result: null })
SetEntry(registry, k, q, status) ==
    [registry EXCEPT ![k] = [NoEntry EXCEPT !.present = TRUE, !.url = q, !.status = status]]

\* progressCallback.call: session = activeSessions.get(sessionId);
\* if (session) session.progress.push(...), for each message in turn
PushProgress(registry, k, ms) ==
    IF registry[k].present THEN [registry EXCEPT ![k].progress = @ \o ms] ELSE registry

\* the code after the awaited extraction with the writes to the record left out
CompleteLost(registry, k, endpoint, outcome) == registry

\* the code after the awaited extraction: the result or the error is stored in the
\* request's record (and the payment endpoints append one more progress line)
Complete(registry, k, endpoint, outcome) ==
    LET stored ==
            IF ~registry[k].present THEN registry
            ELSE IF outcome.kind = "return"
            THEN [registry EXCEPT ![k].result = outcome.record,
                                  ![k].status = "completed", ![k].end_time = "set"]
            ELSE [registry EXCEPT ![k].status = "error",
                                  ![k].error = outcome.error.message,
                                  ![k].end_time = "set"]
        line == IF outcome.kind = "return" THEN Msg("paymentCompleted", "")
                ELSE Msg("errorLine", outcome.error.message)
    IN  IF endpoint \in {"payment", "extract"} THEN PushProgress(stored, k, <<line>>)
        ELSE stored

\* the elements a sequence gained
NewSince(old, new) == SubSeq(new, Len(old) + 1, Len(new))

\* the provider receives the requests a call has just sent
Received(provider, q, reqs) ==
    [provider EXCEPT !.log = @ \cup {[from |-> q, op |-> reqs[i].op,
                                        sessionId |-> reqs[i].sessionId] :
                                           i \in DOMAIN reqs}]

\* one turn of the call of request q, whose record is under key k, ends in d,
\* with registry and provider as the turn found or made them: the sink's
\* messages go to the record under k, a call that settled in this turn is
\* completed, the new requests reach the provider
Turn(q, k, d, registry, provider) ==
    LET c == app.calls[q]
        pushed == PushProgress(registry, k, NewSince(c.msgs, d.msgs))
        settles == c.wOutcome.kind = "none" /\ d.wOutcome.kind # "none"
    IN  /\ app' = [app EXCEPT
                !.id[q] = k,
                !.calls[q] = d,
                !.phase[q] = IF c.wOutcome.kind # "none" THEN @
                             ELSE IF d.wOutcome.kind = "none" THEN "running"
                             ELSE IF d.wOutcome.kind = "return" THEN "completed"
                             ELSE "error",
                !.activeSessions = IF settles
                                   THEN Complete(pushed, k, app.endpoint[q], d.wOutcome)
                                   ELSE pushed,
                !.provider = Received(provider, q, NewSince(c.reqs, d.reqs))]
        /\ UNCHANGED <<variant, run, parse, locale>>

\* a turn that an answer of the provider or a timer starts
Deliver(q, d) == Turn(q, app.id[q], d, app.activeSessions, app.provider)

\* the two versions of the server: unnamed/part_007 schedules a watchdog for
\* every record, app.js does not
Servers == {"app.js", "part_007"}

\* the error of the constructors of the extractors when the API key is not set
KeyError == Err("HYPERBROWSER_API_KEY environment variable is required.")

\* the error the watchdog stores
WatchdogMessage == "Timed out after 5 minutes"

\* scheduleSessionTimeout(sessionId, 5, 2000), called by the server that has it
scheduleSessionTimeout(server) == IF server = "part_007" THEN "armed" ELSE "unset"

\* the start of either POST handler for request q: without a URL in the body
\* answer 400; else register the record as 'starting', schedule the watchdog
\* and the background callback, and answer 'started'
PostStart(q) ==
    /\ app.phase[q] = "none"
    /\ IF app.body[q] = "blank"
       THEN app' = [app EXCEPT !.phase[q] = "refused", !.answer[q] = "urlRequired"]
       ELSE LET k == uuidv4(UsedKeys)
            IN  app' = [app EXCEPT
                    !.id[q] = k,
                    !.phase[q] = "scheduled",
                    !.answer[q] = "started",
                    !.watchdog[q] = scheduleSessionTimeout(app.server),
                    !.activeSessions = SetEntry(@, k, q, "starting")]
    /\ UNCHANGED <<variant, run, parse, locale>>

\* app.post('/api/analyze'): register the record, schedule the analysis with
\* setImmediate, answer at once
PostAnalyze ==
    \E q \in Requests :
        /\ app.endpoint[q] = "analyze"
        /\ PostStart(q)

\* app.post('/api/payment/extract'): the same with the payment extractor
PostPaymentExtract ==
    \E q \in Requests :
        /\ app.endpoint[q] = "extract"
        /\ PostStart(q)

\* the constructor of the extractor threw inside the callback's try block: the
\* catch block stores the error in the record
ConstructorThrows(q) ==
    /\ app' = [app EXCEPT
            !.phase[q] = "error",
            !.activeSessions = Complete(@, app.id[q], app.endpoint[q], Thrown(KeyError))]
    /\ UNCHANGED <<variant, run, parse, locale>>

\* the setImmediate callback of /api/analyze: construct the extractor, build the
\* sink and call the extractor, up to the await of sessions.create
AnalyzeBackground ==
    \E q \in Requests :
        /\ app.phase[q] = "scheduled"
        /\ app.endpoint[q] = "analyze"
        /\ IF app.apiKey THEN Deliver(q, ExtractStart(app.calls[q]))
           ELSE ConstructorThrows(q)

\* the setImmediate callback of /api/payment/extract: construct the extractor,
\* report the start to the sink and call the extractor, up to the await of
\* sessions.create
ExtractBackground ==
    \E q \in Requests :
        /\ app.phase[q] = "scheduled"
        /\ app.endpoint[q] = "extract"
        /\ IF app.apiKey
           THEN Turn(q, app.id[q], ExtractStart(app.calls[q]),
                     PushProgress(app.activeSessions, app.id[q],
                                  <<Msg("paymentStarting", "")>>),
                     app.provider)
           ELSE ConstructorThrows(q)

\* the callback of scheduleSessionTimeout, minutes after the setImmediate
\* callback has run: a record that is not terminal is set to 'error' and gets
\* one more progress line
WatchdogFires ==
    \E q \in Requests :
        /\ app.watchdog[q] = "armed"
        /\ app.phase[q] # "scheduled"
        /\ LET k == app.id[q]
               session == app.activeSessions[k]
               isTerminal == session.status \in {"completed", "error"}
           IN  app' = [app EXCEPT
                   !.watchdog[q] = "fired",
                   !.activeSessions =
                       IF session.present /\ ~isTerminal
                       THEN PushProgress(
                                [@ EXCEPT ![k].status = "error",
                                          ![k].error = WatchdogMessage,
                                          ![k].end_time = "set"],
                                k, <<Msg("serverTimeout", "")>>)
                       ELSE @]
        /\ UNCHANGED <<variant, run, parse, locale>>

\* app.get('/api/payment/:encoded_url'): register the record, report the start to
\* the sink and call the extractor, up to the await of sessions.create
GetPayment ==
    \E q \in Requests :
        /\ app.phase[q] = "none"
        /\ app.endpoint[q] = "payment"
        /\ LET k == uuidv4(UsedKeys)
               set == SetEntry(app.activeSessions, k, q, "running")
               started == PushProgress(set, k, <<Msg("paymentStarting", "")>>)
           IN  Turn(q, k, ExtractStart(app.calls[q]), started, app.provider)

\* sessions.create answers the call of a request, on success with a new session
AppCreateSettles ==
    \E q \in Requests, ans \in CreateAnswers :
        /\ app.calls[q].pc = "awaitCreate"
        /\ LET s == FreshSessionId(app.provider)
               provider == IF ans = "fail" THEN app.provider
                           ELSE [app.provider EXCEPT !.owner[s] = q, !.latest = s]
           IN  Turn(q, app.id[q], OnCreateAs(app.calls[q], ans, variant, s),
                    app.activeSessions, provider)

AppTimerFires ==
    \E q \in Requests :
        /\ app.calls[q].timer = "armed"
        /\ Deliver(q, OnTimer(app.calls[q], variant))

AppTimerStopSettles ==
    \E q \in Requests, ans \in StopAnswers :
        /\ app.calls[q].tpc = "awaitStop"
        /\ Deliver(q, OnTimerStop(app.calls[q], ans))

AppTaskResolves ==
    \E q \in Requests, result \in AppTaskResults :
        /\ app.calls[q].task = "pending"
        /\ Deliver(q, OnTaskResolved(app.calls[q], result))

AppTaskRejects ==
    \E q \in Requests, error \in AppTaskErrors :
        /\ app.calls[q].task = "pending"
        /\ Deliver(q, OnTaskRejected(app.calls[q], error))

AppGetSettles ==
    \E q \in Requests, ans \in AppGetAnswers :
        /\ app.calls[q].pc = "awaitGet"
        /\ Deliver(q, OnGet(app.calls[q], ans))

AppSuccessStopSettles ==
    \E q \in Requests, ans \in StopAnswers :
        /\ app.calls[q].pc = "awaitStopOk"
        /\ Deliver(q, OnSuccessStop(app.calls[q], ans))

AppCatchStopSettles ==
    \E q \in Requests, ans \in StopAnswers :
        /\ app.calls[q].pc = "awaitStopErr"
        /\ Deliver(q, OnCatchStop(app.calls[q], ans))

\* two requests arrive: one at /api/analyze, one at either endpoint
InitApp ==
    /\ variant \in Variants
    /\ run = [r \in Runs |-> InitCall("absent", {})]
    /\ parse = NoParse
    /\ locale = NoLocale
    /\ \E e \in {"analyze", "payment"} : app = [NoApp EXCEPT !.endpoint["reqB"] = e]

NextApp ==
    \/ PostAnalyze
    \/ AnalyzeBackground
    \/ GetPayment
    \/ AppCreateSettles
    \/ AppTimerFires
    \/ AppTimerStopSettles
    \/ AppTaskResolves
    \/ AppTaskRejects
    \/ AppGetSettles
    \/ AppSuccessStopSettles
    \/ AppCatchStopSettles

SpecApp == InitApp /\ [][NextApp]_vars

\* one request arrives at /api/analyze or at /api/payment/extract, with or
\* without a URL, at either version of the server, with or without the API key
\* in the environment
InitServer ==
    /\ variant \in Variants
    /\ run = [r \in Runs |-> InitCall("absent", {})]
    /\ parse = NoParse
    /\ locale = NoLocale
    /\ \E e \in {"analyze", "extract"}, s \in Servers, key \in BOOLEAN,
             b \in {"url", "blank"} :
          app = [NoApp EXCEPT !.endpoint = [q \in Requests |->
                                               IF q = "reqA" THEN e ELSE "absent"],
                              !.server = s, !.apiKey = key, !.body["reqA"] = b]

NextServer ==
    \/ PostAnalyze
    \/ AnalyzeBackground
    \/ PostPaymentExtract
    \/ ExtractBackground
    \/ WatchdogFires
    \/ AppCreateSettles
    \/ AppTimerFires
    \/ AppTimerStopSettles
    \/ AppTaskResolves
    \/ AppTaskRejects
    \/ AppGetSettles
    \/ AppSuccessStopSettles
    \/ AppCatchStopSettles

SpecServer == InitServer /\ [][NextServer]_vars

\* the event loop runs every callback and timer that is due and the provider
\* answers the create, get and stop requests; the remote task may never settle
FairnessServer ==
    /\ WF_vars(PostAnalyze)
    /\ WF_vars(AnalyzeBackground)
    /\ WF_vars(PostPaymentExtract)
    /\ WF_vars(ExtractBackground)
    /\ WF_vars(WatchdogFires)
    /\ WF_vars(AppCreateSettles)
    /\ WF_vars(AppTimerFires)
    /\ WF_vars(AppTimerStopSettles)
    /\ WF_vars(AppGetSettles)
    /\ WF_vars(AppSuccessStopSettles)
    /\ WF_vars(AppCatchStopSettles)

SpecServerFair == InitServer /\ [][NextServer]_vars /\ FairnessServer

\* the sinks of the repository (app.js) do not throw
Init ==
    /\ parse = NoParse
    /\ locale = NoLocale
    /\ app = NoApp
    /\ variant \in Variants
    /\ \E sink \in {"absent", "present"} :
          run = [r \in Runs |-> IF r = "call" THEN InitCall(sink, {})
                                ELSE InitCall("absent", {})]

\* any callback may be passed as progressCallback: one that throws on some messages
InitSink ==
    /\ parse = NoParse
    /\ locale = NoLocale
    /\ app = NoApp
    /\ variant \in Variants
    /\ \E T \in SUBSET Tags :
          /\ Cardinality(T) <= MaxThrowing
          /\ run = [r \in Runs |-> IF r = "call" THEN InitCall("present", T)
                                   ELSE InitCall("absent", {})]

Start ==
    /\ \E r \in Runs : run[r].pc = "idle"
    /\ run' = [r \in Runs |-> IF run[r].pc = "idle" THEN ExtractStart(run[r]) ELSE run[r]]
    /\ UNCHANGED <<variant, parse, app, locale>>

CreateSettles ==
    /\ \E r \in Runs : run[r].pc = "awaitCreate"
    /\ \E ans \in CreateAnswers :
          run' = [r \in Runs |-> IF run[r].pc = "awaitCreate"
                                 THEN OnCreate(run[r], ans, variant) ELSE run[r]]
    /\ UNCHANGED <<variant, parse, app, locale>>

TimerFires ==
    /\ \E r \in Runs : run[r].timer = "armed"
    /\ run' = [r \in Runs |-> IF run[r].timer = "armed"
                              THEN OnTimer(run[r], variant) ELSE run[r]]
    /\ UNCHANGED <<variant, parse, app, locale>>

TimerStopSettles ==
    /\ \E r \in Runs : run[r].tpc = "awaitStop"
    /\ \E ans \in StopAnswers :
          run' = [r \in Runs |-> IF run[r].tpc = "awaitStop"
                                 THEN OnTimerStop(run[r], ans) ELSE run[r]]
    /\ UNCHANGED <<variant, parse, app, locale>>

TaskResolves ==
    /\ \E r \in Runs : run[r].task = "pending"
    /\ \E result \in TaskResults :
          run' = [r \in Runs |-> IF run[r].task = "pending"
                                 THEN OnTaskResolved(run[r], result) ELSE run[r]]
    /\ UNCHANGED <<variant, parse, app, locale>>

TaskRejects ==
    /\ \E r \in Runs : run[r].task = "pending"
    /\ \E error \in TaskErrors :
          run' = [r \in Runs |-> IF run[r].task = "pending"
                                 THEN OnTaskRejected(run[r], error) ELSE run[r]]
    /\ UNCHANGED <<variant, parse, app, locale>>

GetSettles ==
    /\ \E r \in Runs : run[r].pc = "awaitGet"
    /\ \E ans \in GetAnswers :
          run' = [r \in Runs |-> IF run[r].pc = "awaitGet"
                                 THEN OnGet(run[r], ans) ELSE run[r]]
    /\ UNCHANGED <<variant, parse, app, locale>>

SuccessStopSettles ==
    /\ \E r \in Runs : run[r].pc = "awaitStopOk"
    /\ \E ans \in StopAnswers :
          run' = [r \in Runs |-> IF run[r].pc = "awaitStopOk"
                                 THEN OnSuccessStop(run[r], ans) ELSE run[r]]
    /\ UNCHANGED <<variant, parse, app, locale>>

CatchStopSettles ==
    /\ \E r \in Runs : run[r].pc = "awaitStopErr"
    /\ \E ans \in StopAnswers :
          run' = [r \in Runs |-> IF run[r].pc = "awaitStopErr"
                                 THEN OnCatchStop(run[r], ans) ELSE run[r]]
    /\ UNCHANGED <<variant, parse, app, locale>>

Next ==
    \/ Start
    \/ CreateSettles
    \/ TimerFires
    \/ TimerStopSettles
    \/ TaskResolves
    \/ TaskRejects
    \/ GetSettles
    \/ SuccessStopSettles
    \/ CatchStopSettles

Spec == Init /\ [][Next]_vars

SpecSink == InitSink /\ [][Next]_vars

\* the event loop runs every timer that is due, and the provider answers the
\* create, get and stop requests; the remote task may never settle
Fairness ==
    /\ WF_vars(Start)
    /\ WF_vars(CreateSettles)
    /\ WF_vars(TimerFires)
    /\ WF_vars(TimerStopSettles)
    /\ WF_vars(GetSettles)
    /\ WF_vars(SuccessStopSettles)
    /\ WF_vars(CatchStopSettles)

SpecFair == Init /\ [][Next]_vars /\ Fairness

\* the run under observation
C == run["call"]
\* the same call without a progress sink
R == run["ref"]

-----------------------------------------------------------------------------
(* Properties of the bounded call *)

SessionCreated(c) == c.sessionId # NullId
Settled(c) == c.outcome.kind # "none"
StopIssued(c) == \E i \in DOMAIN c.reqs : c.reqs[i].op = "stop"
StopSettled(c) == \E i \in DOMAIN c.stops : c.stops[i].status # "pending"
StopFailed(c) == \E i \in DOMAIN c.stops : c.stops[i].status = "fail"

\* C1: a call that created a session invokes sessions.stop exactly once: never more
\* than once, and once by the time the call has settled
C1_StopExactlyOnce ==
    /\ Len(C.stops) <= 1
    /\ (Settled(C) /\ SessionCreated(C)) => Len(C.stops) = 1

\* C2: once the deadline timer has fired before the task settled, a settled call has
\* thrown the timeout error and has returned no record
C2_TimeoutWins ==
    (C.deadlineFiredFirst /\ Settled(C)) => C.outcome = Thrown(TimeoutError)

\* C3: when a call that created a session has settled, a stop request for its session
\* has been issued and has been answered
C3_StoppedBeforeSettle ==
    (Settled(C) /\ SessionCreated(C)) => (StopIssued(C) /\ StopSettled(C))

C3_Witness ==
    /\ Settled(C) /\ SessionCreated(C)
    /\ C.outcome.kind = "return"

\* C4: while the task stays unsettled, the call eventually fails with the timeout
\* error, a stop request having been sent (the timer fires and the stop requests are
\* answered: Fairness)
C4_TimeoutEventually ==
    (C.task = "pending") ~>
        (C.task # "pending" \/ (C.outcome = Thrown(TimeoutError) /\ StopIssued(C)))

C4_Witness ==
    /\ C.task = "pending"
    /\ C.outcome = Thrown(TimeoutError)
    /\ StopIssued(C)

\* C5: the outcome of a settled call is decided by the race alone, whatever the stop
\* requests answered: the record on the success path, the timeout error on the
\* timeout path, the task's error on the failure path, and never the stop error
C5_StopFailureIsNotFatal ==
    (Settled(C) /\ SessionCreated(C)) =>
        /\ C.outcome.error # StopError
        /\ C.raceWinner = "resolved" =>
              C.outcome = Returned(AttachScreenshot(ParseResult(C.result), C.screenshot))
        /\ C.raceWinner = "timeout" => C.outcome = Thrown(TimeoutError)
        /\ C.raceWinner = "rejected" => C.outcome = Thrown(C.taskError)

C5_Witness ==
    /\ Settled(C) /\ StopFailed(C)
    /\ C.raceWinner = "resolved"
    /\ C.outcome.kind = "return"

\* C6: when sessions.create fails the call throws the creation error and has
\* submitted no task, started no timer and issued no stop request
C6_CreateFailure ==
    C.created = "fail" =>
        /\ C.outcome = Thrown(CreateError)
        /\ C.reqs = <<[op |-> "create", sessionId |-> NullId]>>
        /\ C.task = "unstarted"
        /\ C.timer = "unset" /\ C.timeoutPromise = "none"
        /\ C.stops = <<>>

C6_Witness ==
    C.created = "fail" /\ Settled(C)

\* C7: when the task fails before the deadline, a stop is requested at once, and the
\* settled call has thrown the task's own error after that stop was answered
C7_RemoteFailure ==
    (C.raceWinner = "rejected" /\ C.timer # "fired") =>
        /\ StopIssued(C)
        /\ Settled(C) =>
              /\ C.outcome = Thrown(C.taskError)
              /\ StopSettled(C)
              /\ C.taskError.message \notin {TimeoutMessage, StopError.message}
                    => C.outcome.error \notin {TimeoutError, StopError}

C7_Witness ==
    /\ C.raceWinner = "rejected" /\ C.timer # "fired"
    /\ C.outcome = Thrown(Err("agent failed"))

\* what a caller can tell from a thrown error: its name and its message
IsTimeoutKind(e) == e.name = "TimeoutError" \/ e.message = TimeoutMessage
IsRemoteKind(e) == ~IsTimeoutKind(e)

\* C8: a failed call has a timeout-kind error exactly when the deadline fired before
\* the task settled, and a remote-failure-kind error exactly when the task failed first
C8_TypedFailure ==
    (C.outcome.kind = "throw" /\ SessionCreated(C)) =>
        /\ IsTimeoutKind(C.outcome.error) <=> C.deadlineFiredFirst
        /\ IsRemoteKind(C.outcome.error) <=> (C.raceWinner = "rejected" /\ ~C.deadlineFiredFirst)

Finished(c) == c.wOutcome.kind # "none"

\* C9: under the same provider behaviour the call with a sink and the call without
\* one end with the same outcome and the same sequence of provider requests
C9_SinkCannotInfluence ==
    (Finished(C) /\ Finished(R)) =>
        /\ C.wOutcome = R.wOutcome
        /\ C.outcome = R.outcome
        /\ C.reqs = R.reqs

TerminationTags ==
    { "stoppedOk", "stopWarnClean", "stoppedTimeout", "stopWarnTimeout",
      "stoppedError", "stopWarnError" }

\* the position of a message in the documented order (0: not one of the four)
Phase(m) ==
    IF m.tag = "created" THEN 1
    ELSE IF m.tag \in {"taskStarting", "optimized", "timeoutProtection"} THEN 2
    ELSE IF m.tag = "taskCompleted" \/ m = Msg("extractionError", TimeoutMessage) THEN 3
    ELSE IF m.tag \in TerminationTags THEN 4
    ELSE 0

\* C10: the sink's messages come in the order session-created, task-started,
\* task-completed-or-timed-out, termination-outcome, with at most one
\* termination-outcome message
C10_MessageOrder ==
    /\ Cardinality({i \in DOMAIN C.msgs : C.msgs[i].tag \in TerminationTags}) <= 1
    /\ \A i, j \in DOMAIN C.msgs :
          (i < j /\ Phase(C.msgs[i]) # 0 /\ Phase(C.msgs[j]) # 0)
              => Phase(C.msgs[i]) <= Phase(C.msgs[j])

\* the positions of the requests of kind op in the call's request sequence
ReqsOf(c, op) == {i \in DOMAIN c.reqs : c.reqs[i].op = op}

\* the outcome states the call has entered so far
OutcomeStates(c) ==
    (IF c.raceWinner = "resolved" THEN {"Completed"} ELSE {})
        \cup (IF c.deadlineFiredFirst THEN {"TimedOut"} ELSE {})
        \cup (IF c.raceWinner = "rejected" THEN {"Failed"} ELSE {})

\* C11: a call goes Idle, SessionCreated, TaskRunning, one single outcome state
\* of Completed, TimedOut or Failed, then Terminated: it never enters two outcome
\* states, and after its stop request it issues no further provider request
C11_Lifecycle ==
    /\ Cardinality(OutcomeStates(C)) <= 1
    /\ \A i \in ReqsOf(C, "stop") : i = Len(C.reqs)
    /\ \A i \in ReqsOf(C, "task") : i = 2 /\ C.reqs[1].op = "create"
    /\ ReqsOf(C, "stop") # {} => OutcomeStates(C) # {}

\* C12: whatever the outcome, a bounded call makes at most one sessions.create
\* request and at most one startAndWait request
C12_NoRetry ==
    /\ Cardinality(ReqsOf(C, "create")) <= 1
    /\ Cardinality(ReqsOf(C, "task")) <= 1

\* C12 witness: a call whose task failed has ended with one create and one task
C12_Witness ==
    /\ Finished(C)
    /\ C.raceWinner = "rejected"
    /\ Cardinality(ReqsOf(C, "create")) = 1
    /\ Cardinality(ReqsOf(C, "task")) = 1

\* C15: sessions.get is requested only after the task completed normally and
\* before any stop request; when the get fails, answers nothing or has no live
\* URL, the call still returns its record without a screenshot and is stopped
C15_ScreenshotBestEffort ==
    /\ \A i \in ReqsOf(C, "get") :
          /\ C.raceWinner = "resolved"
          /\ \A j \in ReqsOf(C, "stop") : i < j
    /\ (Finished(C) /\ C.raceWinner = "resolved" /\ C.screenshot = "null")
          => /\ C.outcome.kind = "return"
             /\ C.outcome.record.screenshot = "absent"
             /\ StopIssued(C)

(***************************************************************************)
(* The parsers applied to the texts an agent can answer                    *)
(***************************************************************************)
MaxLines == 2
MaxCandidates == 3

SeqsUpTo(S, n) == UNION {[1..k -> S] : k \in 0..n}

\* the tokens of the free texts: the two URL labels, a gateway URL, a login URL of
\* the shop and a word
TextTokens ==
    {Key("PAYMENT_URL:"), Key("CHECKOUT_URL:"), Url(GatewayHost, "/abc123"),
     Url(OriginHost, "/login"), Word("not-a-url")}

\* lines of one or two tokens
TextLines == {<<t>> : t \in TextTokens} \cup {<<a, b>> : a, b \in TextTokens}

\* lines that hold one bare URL
UrlLines == {<<Url(h, p)>> : h \in Hosts, p \in Paths}

\* the texts handed to the parsers: undefined, the empty string, free texts and
\* lists of bare URLs
\* lines about providers: a PAYMENT_PROVIDERS: line without a value, with two
\* providers, with one provider twice, with commas only, and lines of plain words
ProviderLines ==
    {<<Key("PAYMENT_PROVIDERS:")>>,
     <<Key("PAYMENT_PROVIDERS:"), Word("Visa"), Comma, Word("PayPal")>>,
     <<Key("PAYMENT_PROVIDERS:"), Word("Visa"), Comma, Space, Word("Visa")>>,
     <<Key("PAYMENT_PROVIDERS:"), Comma, Space>>,
     <<Word("Paypal"), Word("VISA")>>,
     <<Word("Klarna")>>,
     <<Word("not-a-url")>>}

\* lines with white space at their ends, a label that is not at the start of its
\* line, and URL labels whose value is a URL
SpacedLines ==
    {<<Space, Key("STEPS_COMPLETED:"), Space, Word("not-a-url"), Space>>,
     <<Word("not-a-url"), Key("STEPS_COMPLETED:"), Word("Klarna")>>,
     <<Space, Key("CHECKOUT_URL:"), Url(OriginHost, "/checkout"), Word("not-a-url")>>,
     <<Key("PAYMENT_URL:"), Space, Url(OriginHost, "/abc123")>>,
     <<Url(GatewayHost, "/checkout"), Space>>,
     <<Url(GatewayHost, "/checkout")>>}

Texts ==
    {[given |-> FALSE, lines |-> <<>>]}
        \cup {[given |-> TRUE, lines |-> l] : l \in SeqsUpTo(TextLines, MaxLines)}
        \cup {[given |-> TRUE, lines |-> l] :
                    l \in SeqsUpTo(ProviderLines \cup SpacedLines, MaxLines)}
        \cup {[given |-> TRUE, lines |-> l] : l \in SeqsUpTo(UrlLines, MaxCandidates)}

\* context.originalCheckoutUrl: undefined or the shop's checkout page
Originals == {<<>>, <<Url(OriginHost, "/checkout")>>}

InitParse ==
    /\ app = NoApp
    /\ locale = NoLocale
    /\ variant = "stopThenReject"
    /\ run = [r \in Runs |-> InitCall("absent", {})]
    /\ \E text \in Texts, original \in Originals,
             parser \in {"payment", "checkout", "paymentV1"} :
          /\ parser # "payment" => original = <<>>
          /\ parse = [NoParse EXCEPT !.parser = parser, !.phase = "called",
                                     !.text = text, !.original = original]

ParsePayment ==
    /\ parse.phase = "called"
    /\ parse.parser = "payment"
    /\ parse' = [parse EXCEPT !.phase = "returned",
                              !.result = ParsePaymentResponse(parse.text, parse.original)]
    /\ UNCHANGED <<variant, run, app, locale>>

ParseCheckout ==
    /\ parse.phase = "called"
    /\ parse.parser = "checkout"
    /\ parse' = [parse EXCEPT !.phase = "returned",
                              !.result = ParseCheckoutResponse(parse.text)]
    /\ UNCHANGED <<variant, run, app, locale>>

ParsePaymentV1 ==
    /\ parse.phase = "called"
    /\ parse.parser = "paymentV1"
    /\ parse' = [parse EXCEPT !.phase = "returned",
                              !.result = ParsePaymentV1Response(parse.text)]
    /\ UNCHANGED <<variant, run, app, locale>>

NextParse ==
    \/ ParsePayment
    \/ ParseCheckout
    \/ ParsePaymentV1

SpecParse == InitParse /\ [][NextParse]_vars

\* the parser has returned
ParseReturned == parse.phase = "returned"

\* the URL property of the parser that ran, after the loop over the lines
PrimaryUrl ==
    IF parse.parser = "payment"
    THEN PaymentLines(parse.text.lines, EmptyResult).payment_url
    ELSE IF parse.parser = "paymentV1"
    THEN PaymentV1Lines(parse.text.lines, EmptyResult).payment_url
    ELSE CheckoutLines(parse.text.lines, EmptyResult).checkout_url

\* the URL property of the returned record
ResultUrl ==
    IF parse.parser = "checkout" THEN parse.result.checkout_url
    ELSE parse.result.payment_url

\* every URL token of the text, wherever it stands
TextUrls == MatchAll(parse.text.lines, FALSE)

\* the candidates the fallback of the parser that ran works on
Candidates ==
    IF parse.parser = "payment" THEN PaymentCandidates(parse.text)
    ELSE IF parse.parser = "paymentV1" THEN <<>>
    ELSE CheckoutCandidates(parse.text)

\* the URL the fallback of the parser that ran prefers
Preferred ==
    IF parse.parser = "payment"
    THEN PreferredPayment(Candidates, OrigHost(parse.original))
    ELSE PreferredCheckout(Candidates)

\* C16: for every text, the empty and the missing one included, the parser
\* returns a record whose raw_response is set
C16_RawResponseAlways ==
    ParseReturned => parse.result.raw_response.set

\* C17: for a text without any URL token the URL property of the record is
\* absent, also when a URL label line has an empty or a non-URL value
C17_NoUrlMeansAbsent ==
    (ParseReturned /\ TextUrls = <<>>) => ~ResultUrl.set

\* C18: when the loop over the lines left the URL property unset, empty or with
\* a value that does not start with a scheme, and the fallback has a candidate,
\* the URL property is the candidate the fallback prefers
C18_FallbackOnNonUrl ==
    (/\ ParseReturned
     /\ ~IsFalsyText(parse.text)
     /\ IsFalsy(PrimaryUrl) \/ ~StartsWithScheme(PrimaryUrl)
     /\ Candidates # <<>>)
        => ResultUrl = Field(Preferred)

\* C20: when the loop over the lines left the URL property unset and the text
\* holds a URL token, at the end of a line or not, the URL property is one of
\* the URL tokens of the text
C20_AnyUrlIsFound ==
    (/\ ParseReturned
     /\ ~IsFalsyText(parse.text)
     /\ ~PrimaryUrl.set
     /\ TextUrls # <<>>)
        => /\ ResultUrl.set
           /\ \E i \in DOMAIN TextUrls : ResultUrl.value = <<TextUrls[i]>>

\* candidate i of c ranks above candidate j: a gateway keyword first, then a
\* host that differs from the origin's, then the earlier position
RanksAbove(c, i, j, origHost) ==
    LET kw(k) == looksLikeGateway(c[k])
        ext(k) == isExternal(c[k], origHost)
    IN  \/ kw(i) /\ ~kw(j)
        \/ kw(i) = kw(j) /\ ext(i) /\ ~ext(j)
        \/ kw(i) = kw(j) /\ ext(i) = ext(j) /\ i < j

\* the payment-URL fallback ran on at least one candidate
PaymentFallbackRan ==
    /\ ParseReturned
    /\ parse.parser = "payment"
    /\ ~IsFalsyText(parse.text)
    /\ IsFalsy(PrimaryUrl)
    /\ Candidates # <<>>

\* C19: when the payment-URL fallback runs, the selected candidate is the one that
\* ranks above every other deduplicated candidate in the lexicographic order
\* (matches a gateway keyword, host differs from the origin's, seen earlier)
C19_LexicographicMaximum ==
    PaymentFallbackRan =>
        \E i \in DOMAIN Candidates :
            /\ parse.result.payment_url = Field(<<Candidates[i]>>)
            /\ \A j \in DOMAIN Candidates \ {i} :
                  RanksAbove(Candidates, i, j, OrigHost(parse.original))

\* C19 witness: of three candidates the second, a gateway URL on the shop's own
\* host, is selected over an earlier external URL without a keyword
C19_Witness ==
    /\ PaymentFallbackRan
    /\ Len(Candidates) = 3
    /\ isExternal(Candidates[1], OrigHost(parse.original))
    /\ ~looksLikeGateway(Candidates[1])
    /\ ~isExternal(Candidates[2], OrigHost(parse.original))
    /\ looksLikeGateway(Candidates[2])
    /\ parse.result.payment_url = Field(<<Candidates[2]>>)

\* C13: with several calls in flight every sessions.stop and sessions.get request
\* of a call targets the session this call created, so no call stops another
\* call's session, and a call whose own task completed or failed ends with that
\* outcome whatever happened to the other call
C13_OwnSessionOnly ==
    /\ \A e \in app.provider.log :
          e.op \in {"stop", "get"} =>
              /\ e.sessionId # NullId
              /\ e.sessionId = app.calls[e.from].sessionId
              /\ app.provider.owner[e.sessionId] = e.from
    /\ \A q \in Requests :
          /\ (Finished(app.calls[q]) /\ app.calls[q].raceWinner = "resolved")
                => app.calls[q].wOutcome = Returned(app.calls[q].parsedResult)
          /\ (Finished(app.calls[q]) /\ app.calls[q].raceWinner = "rejected")
                => app.calls[q].wOutcome = Thrown(app.calls[q].taskError)

\* C13 witness: one call has timed out and stopped its session while the other
\* call, on another session, has completed its task and awaits sessions.get
C13_Witness ==
    \E q, p \in Requests :
        /\ Finished(app.calls[q])
        /\ app.calls[q].raceWinner = "timeout"
        /\ [from |-> q, op |-> "stop", sessionId |-> app.calls[q].sessionId]
              \in app.provider.log
        /\ app.calls[p].pc = "awaitGet"
        /\ app.calls[p].sessionId \notin {NullId, app.calls[q].sessionId}

\* a is a prefix of b
IsPrefix(a, b) == Len(a) <= Len(b) /\ SubSeq(b, 1, Len(a)) = a

\* request q takes this step
Acts(q) == app'.calls[q] # app.calls[q] \/ app'.phase[q] # app.phase[q]

\* C14: a step changes a record of activeSessions only when it is a step of the
\* one request whose identifier is the record's key; a record that exists is
\* never removed or replaced and its progress only grows by appending
C14_OwnRecordOnly ==
    [][\A k \in SessionKeys :
          app'.activeSessions[k] # app.activeSessions[k] =>
              /\ \E q \in Requests :
                    /\ Acts(q)
                    /\ app'.id[q] = k
                    /\ \A p \in Requests \ {q} : ~Acts(p) /\ app.id[p] # k
              /\ app.activeSessions[k].present =>
                    /\ app'.activeSessions[k].present
                    /\ app'.activeSessions[k].url = app.activeSessions[k].url
                    /\ IsPrefix(app.activeSessions[k].progress,
                                app'.activeSessions[k].progress)]_vars

\* C14 witness: two records under two keys, one completed with its result and
\* one in error, each with its own progress
C14_Witness ==
    \E k, l \in SessionKeys :
        /\ k # l
        /\ app.activeSessions[k].status = "completed"
        /\ app.activeSessions[k].end_time = "set"
        /\ app.activeSessions[k].result # NoRecord
        /\ app.activeSessions[l].status = "error"
        /\ app.activeSessions[l].error # ""
        /\ app.activeSessions[k].progress # <<>>
        /\ app.activeSessions[l].progress # <<>>

\* the provider list of the parser that ran, after the loop over the lines
PrimaryProviders ==
    IF parse.parser = "payment"
    THEN PaymentLines(parse.text.lines, EmptyResult).payment_providers
    ELSE IF parse.parser = "paymentV1"
    THEN PaymentV1Lines(parse.text.lines, EmptyResult).payment_providers
    ELSE CheckoutLines(parse.text.lines, EmptyResult).payment_providers

\* no value stands at two positions of s
NoDuplicates(s) == \A i, j \in DOMAIN s : s[i] = s[j] => i = j

\* C21: payment_providers of a returned record has no duplicate entry and keeps
\* the first-seen order, whether it came from a PAYMENT_PROVIDERS: line or from
\* the lexicon search
C21_ProvidersDistinct ==
    (ParseReturned /\ parse.result.payment_providers.set) =>
        /\ NoDuplicates(parse.result.payment_providers.value)
        /\ ~IsFalsy(PrimaryProviders) =>
              parse.result.payment_providers.value = Unique(PrimaryProviders.value)

\* C22: when the loop left the provider list unset or empty, payment_providers
\* is the sequence of the lexicon entries that occur in the text, in lexicon
\* order; a non-empty list of the loop is left unchanged; when no entry occurs the
\* field stays as the loop left it
C22_LexiconFallback ==
    (ParseReturned /\ ~IsFalsyText(parse.text)) =>
        parse.result.payment_providers =
            IF IsFalsy(PrimaryProviders) /\ FoundProviders(parse.text) # <<>>
            THEN Field(FoundProviders(parse.text))
            ELSE PrimaryProviders

\* the labels the parser that ran recognizes among those modelled
RecognizedKeys ==
    IF parse.parser = "checkout" THEN {"CHECKOUT_URL:", "STEPS_COMPLETED:"}
    ELSE {"PAYMENT_URL:", "CHECKOUT_URL:", "STEPS_COMPLETED:"}

\* the lines of the text that start with label k once trimmed
KeyLines(k) ==
    {i \in DOMAIN parse.text.lines :
        LET l == Trim(parse.text.lines[i]) IN l # <<>> /\ l[1] = Key(k)}

\* what the loop is to leave in the field of label k: nothing without a line of
\* that label, else the trimmed rest of the last such line
Expected(k) ==
    IF k \notin RecognizedKeys \/ KeyLines(k) = {} THEN Unset
    ELSE LET i == CHOOSE i \in KeyLines(k) : \A j \in KeyLines(k) : j <= i
         IN  Field(Trim(Tail(Trim(parse.text.lines[i]))))

\* C26: in the loop over the lines each recognized label sets its field to the
\* trimmed rest of a line that starts with the label once trimmed, no other line
\* changes a field, and a URL field whose value from the loop starts with
\* http:// or https:// is returned unchanged whatever URL tokens the text holds
C26_PrimaryPass ==
    (ParseReturned /\ ~IsFalsyText(parse.text)) =>
        /\ parse.result.steps_completed = Expected("STEPS_COMPLETED:")
        /\ PrimaryUrl = Expected(IF parse.parser = "checkout" THEN "CHECKOUT_URL:"
                                 ELSE "PAYMENT_URL:")
        /\ parse.parser # "checkout" => parse.result.checkout_url = Expected("CHECKOUT_URL:")
        /\ parse.parser = "checkout" => ~parse.result.payment_url.set
        /\ StartsWithScheme(PrimaryUrl) => ResultUrl = PrimaryUrl

\* C26 witness: the checkout parser read CHECKOUT_URL: from a line that starts
\* with white space, the value starts with a URL and goes on, the text holds
\* another URL, and the value is returned as the loop left it
C26_Witness ==
    /\ ParseReturned
    /\ parse.parser = "checkout"
    /\ \E i \in KeyLines("CHECKOUT_URL:") : Head(parse.text.lines[i]) = Space
    /\ StartsWithScheme(PrimaryUrl)
    /\ Len(PrimaryUrl.value) > 1
    /\ \E i \in DOMAIN Candidates : Candidates[i] # PrimaryUrl.value[1]
    /\ parse.result.checkout_url = PrimaryUrl

-----------------------------------------------------------------------------
(***************************************************************************)
(* The locale profile resolver: one class resolves a target URL and other  *)
(* URLs, and the caller may write to the objects it received.              *)
(***************************************************************************)
MaxCalls == 3

\* the field a caller overwrites in a profile it received
TamperedFields == {"code"}

InitLocale ==
    /\ app = NoApp
    /\ parse = NoParse
    /\ variant = "stopThenReject"
    /\ run = [r \in Runs |-> InitCall("absent", {})]
    /\ \E r \in Resolvers, u \in CheckoutUrls :
          locale = [NoLocale EXCEPT !.resolver = r, !.target = u]

\* const profile = this._inferCountryProfile(checkoutUrl): the target URL or a
\* URL resolved in between; the caller keeps the object and what it held
Resolve ==
    /\ Len(locale.returned) < MaxCalls
    /\ \E u \in {locale.target} \cup InBetweenUrls :
          LET heap == NewObject(locale.heap, ProfileOf[locale.resolver][u])
              ref == Len(heap)
          IN  locale' = [locale EXCEPT
                            !.heap = heap,
                            !.returned = Append(@, [url |-> u, ref |-> ref,
                                                    profile |-> heap[ref]])]
    /\ UNCHANGED <<variant, run, parse, app>>

\* the caller writes to a field of a profile it received
Mutate ==
    /\ \E i \in DOMAIN locale.heap, f \in TamperedFields :
          /\ locale.heap[i][f] # "tampered"
          /\ locale' = [locale EXCEPT !.heap[i][f] = "tampered"]
    /\ UNCHANGED <<variant, run, parse, app>>

NextLocale ==
    \/ Resolve
    \/ Mutate

SpecLocale == InitLocale /\ [][NextLocale]_vars

\* the locales of the cascades and the fields of a profile
LocaleCodes == {"dk", "de", "it", "es", "pl", "fr"}
ProfileFields ==
    {"code", "acceptLanguage", "firstName", "lastName", "address", "postalCode",
     "city", "phone", "cardLabel", "payLabel"}

\* the order in which a cascade tests the locales
CascadeOrder(r) ==
    IF r = "cascadeB" THEN <<"dk", "de", "it", "es", "pl", "fr">>
    ELSE <<"it", "fr", "dk", "de", "es", "pl">>

\* the markers of a locale: those of the cascade in use, and for the class
\* without a cascade those of the cascade of the same file that replaced it
MarkersOf(r, code) ==
    IF r = "cascadeB" THEN MarkersB[code] ELSE MarkersC[code]

\* the markers a URL contains once lower-cased, for every class and argument
MatchingMarkers ==
    [r \in Resolvers |-> [u \in CheckoutUrls |->
        {s \in UNION {MarkersOf(r, c) : c \in LocaleCodes} : has(urlStr(u), s)}]]

\* the locales of which a URL contains a marker
MatchingCodes(r, u) ==
    {c \in LocaleCodes : MarkersOf(r, c) \cap MatchingMarkers[r][u] # {}}

\* every field of a profile holds a non-empty value
IsComplete(profile) ==
    /\ DOMAIN profile = ProfileFields
    /\ \A f \in ProfileFields : profile[f] # ""

\* C23: every call of _inferCountryProfile, on a missing, an empty, a malformed
\* or a well-formed URL, returns a complete profile, and the profile is the
\* default one (code 'default') exactly when the URL contains no locale marker
C23_TotalWithDefault ==
    \A i \in DOMAIN locale.returned :
        LET e == locale.returned[i]
        IN  /\ IsComplete(e.profile)
            /\ e.profile.code = "default" <=> MatchingCodes(locale.resolver, e.url) = {}

\* the position of a locale in the order of a cascade
Rank(r, code) == CHOOSE k \in 1..Len(CascadeOrder(r)) : CascadeOrder(r)[k] = code

\* the URL of the scenario: https://boutique.example.fr/panier
ScenarioUrl ==
    [given |-> TRUE,
     chars |-> SchemeAndHost \o <<".", "f", "r">> \o <<"/", "p", "a", "n", "i", "e", "r">>]

\* C24: in the two cascades a URL that contains markers of several locales gets
\* the profile of the locale tested first among them, and a URL whose only
\* marker is .fr gets code 'fr', cardLabel 'Carte bancaire' and payLabel
\* 'Payer maintenant'
C24_FirstMatchWins ==
    locale.resolver \in {"cascadeB", "cascadeC"} =>
        \A i \in DOMAIN locale.returned :
            LET e == locale.returned[i]
                codes == MatchingCodes(locale.resolver, e.url)
            IN  /\ codes # {} =>
                      /\ e.profile.code \in codes
                      /\ \A c \in codes :
                            Rank(locale.resolver, e.profile.code) <= Rank(locale.resolver, c)
                /\ MatchingMarkers[locale.resolver][e.url] = {<<".", "f", "r">>} =>
                      /\ e.profile.code = "fr"
                      /\ e.profile.cardLabel = "Carte bancaire"
                      /\ e.profile.payLabel = "Payer maintenant"

\* C24 witness: the later cascade resolved the URL of the scenario to fr and a
\* URL with markers of dk and it to it, the earlier of the two in its order
C24_Witness ==
    /\ locale.resolver = "cascadeC"
    /\ \E i \in DOMAIN locale.returned :
          /\ locale.returned[i].url = ScenarioUrl
          /\ locale.returned[i].profile.code = "fr"
    /\ \E i \in DOMAIN locale.returned :
          /\ {"dk", "it"} \subseteq MatchingCodes("cascadeC", locale.returned[i].url)
          /\ locale.returned[i].profile.code = "it"

\* C25: two resolutions of the same URL return profiles equal field by field,
\* whatever was resolved in between and whatever the caller wrote to a profile
\* it had received
C25_Idempotent ==
    \A i, j \in DOMAIN locale.returned :
        locale.returned[i].url = locale.returned[j].url =>
            /\ DOMAIN locale.returned[i].profile = DOMAIN locale.returned[j].profile
            /\ \A f \in DOMAIN locale.returned[i].profile :
                  locale.returned[i].profile[f] = locale.returned[j].profile[f]

\* C25 witness: the target was resolved, another URL was resolved, the caller
\* overwrote the first profile, and the target was resolved again
C25_Witness ==
    /\ Len(locale.returned) = 3
    /\ locale.returned[1].url = locale.target
    /\ locale.returned[2].url # locale.target
    /\ locale.returned[3].url = locale.target
    /\ locale.heap[locale.returned[1].ref].code = "tampered"
    /\ locale.returned[3].profile.code # "tampered"
    /\ locale.returned[3].ref # locale.returned[1].ref

-----------------------------------------------------------------------------
(* The deadline timer once the task has settled *)

\* the task settled the race while the timer had not fired
TaskSettledFirst(c) ==
    /\ c.raceWinner \in {"resolved", "rejected"}
    /\ ~c.deadlineFiredFirst

\* C27: when the task settles before the deadline timer fires the timer is
\* cancelled and its callback never runs: the timer never fires afterwards, the
\* callback sends no stop request, and once the call has settled no request is
\* sent and no progress message is delivered
C27_TimerCancelled ==
    /\ [](TaskSettledFirst(C) => (C.timer = "cleared" /\ C.tpc = "none"))
    /\ [][(TaskSettledFirst(C) /\ C.wOutcome # NoOutcome) =>
              (run'["call"].reqs = C.reqs /\ run'["call"].msgs = C.msgs)]_vars

\* C27 witness: the task failed before the deadline, the catch block stopped the
\* session and the call has thrown the task's error with the timer cleared
C27_Witness ==
    /\ TaskSettledFirst(C)
    /\ C.raceWinner = "rejected"
    /\ C.wOutcome # NoOutcome
    /\ C.timer = "cleared"
    /\ \E i \in DOMAIN C.stops : C.stops[i].by = "catch"
    /\ \A i \in DOMAIN C.stops : C.stops[i].by # "timer"

-----------------------------------------------------------------------------
(* A stop request the provider never answers *)

\* the event loop runs every timer that is due and the provider answers the
\* create and get requests; a stop request and the task may never settle
FairnessWithoutStop ==
    /\ WF_vars(Start)
    /\ WF_vars(CreateSettles)
    /\ WF_vars(TimerFires)
    /\ WF_vars(GetSettles)

SpecStopHangs == Init /\ [][Next]_vars /\ FairnessWithoutStop

\* C28: once the deadline has fired with the task unsettled, the call eventually
\* throws the timeout error (or the task settles), even when the provider never
\* answers a stop request
C28_StopCannotBlock ==
    (C.timer = "fired" /\ C.task = "pending") ~>
        (C.task # "pending" \/ C.outcome = Thrown(TimeoutError))

-----------------------------------------------------------------------------
(* The registry record of one analysis *)

\* the request was registered
Registered == app.id["reqA"] # "none"

\* the record of the request that arrived
Session == IF Registered THEN app.activeSessions[app.id["reqA"]] ELSE NoEntry

\* C29: once the status of a record is 'completed' or 'error', whether the end
\* of the extraction or the watchdog set it, no step changes its status, its
\* error or its end_time
C29_TerminalIsFinal ==
    [][\A k \in SessionKeys :
          app.activeSessions[k].status \in {"completed", "error"} =>
              /\ app'.activeSessions[k].status = app.activeSessions[k].status
              /\ app'.activeSessions[k].error = app.activeSessions[k].error
              /\ app'.activeSessions[k].end_time = app.activeSessions[k].end_time]_vars

\* C30: a request with a URL is answered 'started' when its record is created
\* with status 'starting', before the background callback runs, and the record
\* eventually reaches 'completed' or 'error', whether the task succeeds, fails or
\* never settles and whether or not the extractor can be constructed
C30_StartedThenTerminal ==
    /\ [](Registered => app.answer["reqA"] = "started")
    /\ []((app.phase["reqA"] \notin {"none", "scheduled", "refused"}) => Registered)
    /\ (Registered /\ Session.status = "starting") ~>
           (Session.status \in {"completed", "error"})

\* C30 witness: at the server without a watchdog the request was answered
\* 'started', the task never settled, and the record holds the timeout error
C30_Witness ==
    /\ Registered
    /\ app.server = "app.js"
    /\ app.answer["reqA"] = "started"
    /\ app.calls["reqA"].task = "pending"
    /\ Session.status = "error"
    /\ Session.error = TimeoutMessage

=============================================================================
